---- MODULE Spec2Model ----
(***************************************************************************)
(* A model of the directorymonster scraper (src/python):                   *)
(*   - SearchEngine.search_and_navigate and the collection loop of         *)
(*     run_scraper.main that calls it            (specification Spec)      *)
(*   - LinkSelector.select_link                  (specification SpecLS)    *)
(*   - ConversationMemory                        (specification SpecMem)   *)
(* The browser, the search engine's pages and the language model are the   *)
(* environment: every answer they can give is a nondeterministic choice.   *)
(***************************************************************************)
EXTENDS Integers, Sequences, FiniteSets, TLC

VARIABLES
    \* ---- the run's inputs
    count,              \* args.count: products wanted
    web,                \* the URLs of the web the browser moves in
    answers,            \* the values of is_product the extraction can answer in the run
    \* ---- run_scraper.main
    pc,                 \* position of the single thread of control
    i,                  \* products found so far (loop variable i)
    search_attempts,    \* search attempts made
    products,           \* the collected product records
    failed_extractions, \* extractions that answered no product
    browser_open,       \* the browser session is open
    exit_cause,         \* how the collection loop was left
    \* ---- SearchEngine
    search_failures,    \* self.search_failures
    current_url,        \* driver.current_url
    navigation_stack,   \* local navigation_stack of search_and_navigate
    navigation_depth,   \* local navigation_depth
    result,             \* return value of the last search_and_navigate call
    \* ---- history of the current search_and_navigate call (not program state)
    outcome,            \* "abort", "fail" or "ok": the path the call returned by
    cause,              \* why the call failed
    did,                \* what the call did: search, select, navigate, classify
    classes,            \* the page types the classifier answered, in order
    fresh,              \* every CATEGORY answer carried a link not yet visited
    visits,             \* the URLs the browser landed on, in order
    follows,            \* recommended links followed
    last_recs,          \* the recommended links read from the last CATEGORY answer
    nav_target,         \* the link chosen from them (NoUrl: none)
    fails_before,       \* search_failures when the call started
    \* ---- history of the calls of one run (not program state)
    streak,             \* calls in a row that returned False
    failed_run,         \* failed attempts in a row since the last success or abort
    \* ---- LinkSelector
    chosen_links,       \* self.chosen_links
    ls_memory,          \* self.memory (ConversationMemory "link_selection")
    ls_links,           \* argument links of the last select_link call
    ls_sample,          \* sample_links of the last call
    ls_response,        \* the model's response in the last call
    ls_result,          \* what the last call returned
    ls_path,            \* "parsed", "fallback" or "empty"
    ls_before,          \* chosen_links when the last call started
    ls_returned,        \* every link returned by an earlier call
    ls_calls,           \* select_link calls made
    \* ---- ConversationMemory
    mem,                \* self.memory (the deque)
    mem_max,            \* self.max_items
    mem_added,          \* every item added since construction or the last clear
    mem_context,        \* what get_context returned, NoContext once the memory changed
    mem_ops,            \* operations applied
    \* ---- OllamaClient
    gen_pc,             \* position in generate / generate_structured
    max_retries,        \* argument max_retries
    retry_delay,        \* argument retry_delay
    retries,            \* local retries of generate
    gen_outcomes,       \* what each request sent came to, in order
    gen_waits,          \* the seconds slept before each retry, in order
    gen_result,         \* what generate returned
    output_schema,      \* argument output_schema of generate_structured
    st_result,          \* what generate_structured returned
    st_raised,          \* the exception generate_structured raised ("no": none)
    \* ---- SearchEngine._ai_analyze_page, structured mode
    an_result,          \* what _ai_analyze_page returned
    an_raised,          \* the exception it raised ("no": none)
    \* ---- AIProductExtractor.extract
    ex_raised,          \* the exception the structured extraction stopped on
    ex_response,        \* the text generate answered the fallback prompt with
    ex_path,            \* "structured" or "fallback": where extract returned
    ex_result,          \* what extract returned
    \* ---- DataStorage and the file system
    file,               \* the file at the output path
    tmp_file,           \* the last file written at the fallback location
    disk,               \* how a write goes now: "ok", "denied" or "cut"
    store_pc,           \* "saved" after save, "loaded" after load
    sv_records,         \* the collection the last save was called with
    sv_returned,        \* what the last save returned
    sv_error,           \* whether the last save met a write error
    ld_result,          \* what load returned, if called since the last save
    store_raised,       \* the exception the last call of save or load raised
    \* ---- DirectoryMonsterClient (extractor.py) and its local file
    mock_mode,          \* self.mock_mode
    api_file,           \* the file at self.output_path
    api_start,          \* that file when the client was constructed
    api_clock,          \* int(time.time())
    api_made,           \* the listings create_listing returned, in order
    api_op,             \* the last operation called, and its site slug
    api_entity,         \* what the last create operation returned
    api_list,           \* what the last list operation returned
    api_net,            \* whether a network call was made
    api_answer,         \* how the API answered the last operation
    api_wrote,          \* the error the last write of the file met ("no": none)
    api_lost,           \* whether a write of the file has met an error
    api_raised,         \* the exception the last operation raised
    \* ---- extract_and_format (extractor.py)
    px_pc,              \* where the run is
    px_env,             \* the credentials the environment holds
    px_llm_type,        \* --llm-type
    px_commentary,      \* whether commentary is generated
    px_submit,          \* --api-submit
    px_net,             \* the network activities of the run so far
    px_raised           \* the exception that ended the run

mainVars == <<pc, i, search_attempts, products, failed_extractions, browser_open, exit_cause>>
engineVars == <<search_failures, current_url, navigation_stack, navigation_depth, result>>
callVars == <<outcome, cause, did, classes, fresh, visits, follows, last_recs,
              nav_target, fails_before>>
runVars == <<streak, failed_run>>
cfgVars == <<count, web, answers>>
navVars == <<cfgVars, mainVars, engineVars, callVars, runVars>>
lsVars == <<chosen_links, ls_memory, ls_links, ls_sample, ls_response, ls_result,
            ls_path, ls_before, ls_returned, ls_calls>>
memVars == <<mem, mem_max, mem_added, mem_context, mem_ops>>
genVars == <<gen_pc, max_retries, retry_delay, retries, gen_outcomes, gen_waits,
             gen_result, output_schema, st_result, st_raised>>
anVars == <<an_result, an_raised>>
exVars == <<ex_raised, ex_response, ex_path, ex_result>>
aiVars == <<genVars, anVars, exVars>>
storeVars == <<file, tmp_file, disk, store_pc, sv_records, sv_returned, sv_error, ld_result,
               store_raised>>
clientVars == <<mock_mode, api_file, api_start, api_clock, api_made, api_op, api_entity, api_list,
             api_net, api_answer, api_wrote, api_lost, api_raised>>
pipeVars == <<px_pc, px_env, px_llm_type, px_commentary, px_submit, px_net, px_raised>>
apiVars == <<clientVars, pipeVars>>
vars == <<navVars, lsVars, memVars, aiVars, storeVars, apiVars>>

(***************************************************************************)
(* Bounds of the model and constants of the program.                       *)
(***************************************************************************)
\* AIProductExtractor: ConversationMemory("product_extraction", max_items=3)
extraction_memory_items == 3
\* the products are saved at every fifth one
save_every == 5
\* args.count of a long run, in a web of one URL
Count == 4
\* args.count of a run whose storage may fail
RunCount == 3
\* args.count of a short run, in a web of three URLs
ShortCount == 1
\* the longest list of recommended links the classifier answers with
MaxRecs == 2
\* self.max_search_failures
max_search_failures == 5
\* max_navigation_depth
max_navigation_depth == 5

\* the URLs of the modelled webs
Urls == {"a", "b", "c"}
SmallWeb == {"a"}
NoUrl == "none"

\* the runs checked: a short run in the large web, a long run in the small one
Runs == {[count |-> ShortCount, web |-> Urls, answers |-> {"True", "False"}],
         [count |-> Count, web |-> SmallWeb, answers |-> {"True", "False"}]}

Range(s) == {s[k] : k \in 1..Len(s)}

\* recommended_links: lists of {"url": ...} mappings, best first
RecLists(W) == UNION {[1..n -> [url : W]] : n \in 1..MaxRecs}

(***************************************************************************)
(* SearchEngine.search_and_navigate                                        *)
(***************************************************************************)
\* the guard of the abort: too many consecutive failures
TooManyFailures_Strict(f) == f > max_search_failures
TooManyFailures(f) == f >= max_search_failures

\* self.search_failures += 1
CountFailure_Lost(f) == f
CountFailure(f) == f + 1

\* self.search_failures = 0 on a product page
ResetFailures_Kept(f) == f
ResetFailures(f) == 0

\* while navigation_depth < max_navigation_depth
LoopContinues_OffByOne(depth) == depth <= max_navigation_depth
LoopContinues(depth) == depth < max_navigation_depth

\* navigation_stack.append(current_url)
PushVisited_Dedup(stack, u) == IF u \in Range(stack) THEN stack ELSE Append(stack, u)
PushVisited(stack, u) == Append(stack, u)

\* the link chosen among the recommendations (NoUrl: none, leave the loop):
\* the first one, or the second one when the first is on the navigation stack
NextLink_NoLoopCheck(recs, stack) == recs[1].url
NextLink(recs, stack) ==
    IF recs[1].url \in Range(stack)
    THEN IF Len(recs) > 1 THEN recs[2].url ELSE NoUrl
    ELSE recs[1].url

\* the recommendations the loop reads: recommended_links[0] and [1]
ReadRecs(recs) == SubSeq(recs, 1, IF Len(recs) > 2 THEN 2 ELSE Len(recs))

\* the locals of a call as it starts, and after it is left
CallStart ==
    /\ outcome' = "none"
    /\ cause' = "none"
    /\ did' = {}
    /\ classes' = <<>>
    /\ fresh' = TRUE
    /\ visits' = <<>>
    /\ follows' = 0
    /\ last_recs' = <<>>
    /\ nav_target' = NoUrl
    /\ navigation_stack' = <<>>
    /\ navigation_depth' = 0

\* return False after self.search_failures += 1
ReturnFailure(why) ==
    /\ search_failures' = CountFailure(search_failures)
    /\ result' = "false"
    /\ outcome' = "fail"
    /\ cause' = why
    /\ pc' = "sn_return"

\* lines 309-313: the call is refused, the counter starts again
EnterAbort ==
    /\ pc = "sn_enter"
    /\ TooManyFailures(search_failures)
    /\ search_failures' = 0
    /\ result' = "false"
    /\ outcome' = "abort"
    /\ cause' = "too_many_failures"
    /\ pc' = "sn_return"
    /\ UNCHANGED <<did, classes, fresh, visits, follows, last_recs, nav_target,
                   fails_before, current_url, navigation_stack, navigation_depth>>
    /\ UNCHANGED <<i, search_attempts, products, failed_extractions, browser_open, exit_cause>>
    /\ UNCHANGED <<cfgVars, runVars, lsVars, memVars, aiVars, storeVars, apiVars>>

\* lines 316-377: the search page is opened, the search box found and the
\* query submitted
SearchSubmitted ==
    /\ pc = "sn_enter"
    /\ ~TooManyFailures(search_failures)
    /\ did' = did \cup {"search"}
    /\ current_url' = "search"
    /\ pc' = "sn_captcha"
    /\ UNCHANGED <<search_failures, result, outcome, cause, classes, fresh, visits,
                   follows, last_recs, nav_target, fails_before, navigation_stack,
                   navigation_depth>>
    /\ UNCHANGED <<i, search_attempts, products, failed_extractions, browser_open, exit_cause>>
    /\ UNCHANGED <<cfgVars, runVars, lsVars, memVars, aiVars, storeVars, apiVars>>

\* lines 369-372 and 379-382: no search box on the search page;
\* lines 550-555: the search page could not be opened
SearchFailed ==
    /\ pc = "sn_enter"
    /\ ~TooManyFailures(search_failures)
    /\ did' = did \cup {"search"}
    /\ \E why \in {"no_search_box", "navigation_exception"} :
          /\ ReturnFailure(why)
          /\ current_url' = IF why = "no_search_box" THEN "search" ELSE current_url
    /\ UNCHANGED <<classes, fresh, visits, follows, last_recs, nav_target,
                   fails_before, navigation_stack, navigation_depth>>
    /\ UNCHANGED <<i, search_attempts, products, failed_extractions, browser_open, exit_cause>>
    /\ UNCHANGED <<cfgVars, runVars, lsVars, memVars, aiVars, storeVars, apiVars>>

\* lines 391-395: the result page is a CAPTCHA
CaptchaDetected ==
    /\ pc = "sn_captcha"
    /\ ReturnFailure("captcha")
    /\ UNCHANGED <<did, classes, fresh, visits, follows, last_recs, nav_target,
                   fails_before, current_url, navigation_stack, navigation_depth>>
    /\ UNCHANGED <<i, search_attempts, products, failed_extractions, browser_open, exit_cause>>
    /\ UNCHANGED <<cfgVars, runVars, lsVars, memVars, aiVars, storeVars, apiVars>>

\* lines 397-419: no link is left after filtering
NoLinks ==
    /\ pc = "sn_captcha"
    /\ ReturnFailure("no_links")
    /\ UNCHANGED <<did, classes, fresh, visits, follows, last_recs, nav_target,
                   fails_before, current_url, navigation_stack, navigation_depth>>
    /\ UNCHANGED <<i, search_attempts, products, failed_extractions, browser_open, exit_cause>>
    /\ UNCHANGED <<cfgVars, runVars, lsVars, memVars, aiVars, storeVars, apiVars>>

\* lines 425-431: ai_select_product_link answers None
SelectFailed ==
    /\ pc = "sn_captcha"
    /\ did' = did \cup {"select"}
    /\ ReturnFailure("no_selection")
    /\ UNCHANGED <<classes, fresh, visits, follows, last_recs, nav_target,
                   fails_before, current_url, navigation_stack, navigation_depth>>
    /\ UNCHANGED <<i, search_attempts, products, failed_extractions, browser_open, exit_cause>>
    /\ UNCHANGED <<cfgVars, runVars, lsVars, memVars, aiVars, storeVars, apiVars>>

\* lines 425-452: a link is selected and opened; the browser lands on some
\* page, and the navigation stack and depth counter are initialised
SelectAndOpen ==
    /\ pc = "sn_captcha"
    /\ did' = did \cup {"select", "navigate"}
    /\ \E land \in web :
          /\ current_url' = land
          /\ visits' = <<land>>
    /\ navigation_stack' = <<>>
    /\ navigation_depth' = 0
    /\ pc' = "nav_loop"
    /\ UNCHANGED <<search_failures, result, outcome, cause, classes, fresh, follows,
                   last_recs, nav_target, fails_before>>
    /\ UNCHANGED <<i, search_attempts, products, failed_extractions, browser_open, exit_cause>>
    /\ UNCHANGED <<cfgVars, runVars, lsVars, memVars, aiVars, storeVars, apiVars>>

\* lines 435 and 550-555: opening the selected link raises
OpenFailed ==
    /\ pc = "sn_captcha"
    /\ did' = did \cup {"select", "navigate"}
    /\ ReturnFailure("navigation_exception")
    /\ UNCHANGED <<classes, fresh, visits, follows, last_recs, nav_target,
                   fails_before, current_url, navigation_stack, navigation_depth>>
    /\ UNCHANGED <<i, search_attempts, products, failed_extractions, browser_open, exit_cause>>
    /\ UNCHANGED <<cfgVars, runVars, lsVars, memVars, aiVars, storeVars, apiVars>>

\* lines 455-457: the loop test passes and the current URL is pushed
LoopTop ==
    /\ pc = "nav_loop"
    /\ LoopContinues(navigation_depth)
    /\ navigation_stack' = PushVisited(navigation_stack, current_url)
    /\ last_recs' = <<>>
    /\ nav_target' = NoUrl
    /\ pc' = "nav_classify"
    /\ UNCHANGED <<search_failures, current_url, navigation_depth, result>>
    /\ UNCHANGED <<outcome, cause, did, classes, fresh, visits, follows, fails_before>>
    /\ UNCHANGED <<cfgVars, runVars, lsVars, memVars, aiVars, storeVars, apiVars>>
    /\ UNCHANGED <<i, search_attempts, products, failed_extractions, browser_open, exit_cause>>

\* lines 455 and 546-548: the depth limit ends the loop without a product
LoopExhausted ==
    /\ pc = "nav_loop"
    /\ ~LoopContinues(navigation_depth)
    /\ ReturnFailure("max_depth")
    /\ UNCHANGED <<did, classes, fresh, visits, follows, last_recs, nav_target,
                   fails_before, current_url, navigation_stack, navigation_depth>>
    /\ UNCHANGED <<i, search_attempts, products, failed_extractions, browser_open, exit_cause>>
    /\ UNCHANGED <<cfgVars, runVars, lsVars, memVars, aiVars, storeVars, apiVars>>

\* lines 469-474: _ai_analyze_page answers nothing; lines 550-555: it raises
AnalysisFailed ==
    /\ pc = "nav_classify"
    /\ did' = did \cup {"classify"}
    /\ ReturnFailure("analysis_failed")
    /\ UNCHANGED <<classes, fresh, visits, follows, last_recs, nav_target,
                   fails_before, current_url, navigation_stack, navigation_depth>>
    /\ UNCHANGED <<i, search_attempts, products, failed_extractions, browser_open, exit_cause>>
    /\ UNCHANGED <<cfgVars, runVars, lsVars, memVars, aiVars, storeVars, apiVars>>

\* lines 483-487: a product page ends the call with success
ClassifyProduct ==
    /\ pc = "nav_classify"
    /\ did' = did \cup {"classify"}
    /\ classes' = Append(classes, "PRODUCT")
    /\ search_failures' = ResetFailures(search_failures)
    /\ result' = "true"
    /\ outcome' = "ok"
    /\ pc' = "sn_return"
    /\ UNCHANGED <<cause, fresh, visits, follows, last_recs, nav_target,
                   fails_before, current_url, navigation_stack, navigation_depth>>
    /\ UNCHANGED <<i, search_attempts, products, failed_extractions, browser_open, exit_cause>>
    /\ UNCHANGED <<cfgVars, runVars, lsVars, memVars, aiVars, storeVars, apiVars>>

\* lines 489-535: a category page with recommended links: the next link is
\* chosen and opened, or the loop is left (no alternative to a visited link,
\* or the navigation raises)
ClassifyCategory ==
    /\ pc = "nav_classify"
    /\ classes' = Append(classes, "CATEGORY")
    /\ \E recs \in RecLists(web) :
          /\ last_recs' = ReadRecs(recs)
          /\ nav_target' = NextLink(recs, navigation_stack)
          /\ fresh' = (fresh /\ \E k \in 1..Len(recs) :
                                    recs[k].url \notin Range(navigation_stack))
    /\ did' = did \cup {"classify"} \cup
              (IF nav_target' # NoUrl THEN {"navigate"} ELSE {})
    /\ \/ /\ nav_target' = NoUrl
          /\ ReturnFailure("loop_detected")
          /\ UNCHANGED <<current_url, navigation_depth, visits, follows>>
       \/ /\ nav_target' # NoUrl
          /\ ReturnFailure("navigation_exception")
          /\ UNCHANGED <<current_url, navigation_depth, visits, follows>>
       \/ /\ nav_target' # NoUrl
          /\ \E land \in web :
                /\ current_url' = land
                /\ visits' = Append(visits, land)
          /\ follows' = follows + 1
          /\ navigation_depth' = navigation_depth + 1
          /\ pc' = "nav_loop"
          /\ UNCHANGED <<search_failures, result, outcome, cause>>
    /\ UNCHANGED <<fails_before, navigation_stack>>
    /\ UNCHANGED <<i, search_attempts, products, failed_extractions, browser_open, exit_cause>>
    /\ UNCHANGED <<cfgVars, runVars, lsVars, memVars, aiVars, storeVars, apiVars>>

\* lines 494-502: a category page without recommended links: a product link
\* of the page is clicked (_select_product_from_category), or the loop is left
ClassifyCategoryNoRecs ==
    /\ pc = "nav_classify"
    /\ did' = did \cup {"classify"}
    /\ classes' = Append(classes, "CATEGORY")
    /\ last_recs' = <<>>
    /\ nav_target' = NoUrl
    /\ fresh' = FALSE
    /\ \/ /\ ReturnFailure("no_recommendation")
          /\ UNCHANGED <<current_url, navigation_depth, visits>>
       \/ /\ \E land \in web :
                /\ current_url' = land
                /\ visits' = Append(visits, land)
          /\ navigation_depth' = navigation_depth + 1
          /\ pc' = "nav_loop"
          /\ UNCHANGED <<search_failures, result, outcome, cause>>
    /\ UNCHANGED <<follows, fails_before, navigation_stack>>
    /\ UNCHANGED <<i, search_attempts, products, failed_extractions, browser_open, exit_cause>>
    /\ UNCHANGED <<cfgVars, runVars, lsVars, memVars, aiVars, storeVars, apiVars>>

\* lines 476 and 537-548: any other page type ends the loop without a product
ClassifyNeither ==
    /\ pc = "nav_classify"
    /\ did' = did \cup {"classify"}
    /\ classes' = Append(classes, "NEITHER")
    /\ ReturnFailure("neither")
    /\ UNCHANGED <<fresh, visits, follows, last_recs, nav_target,
                   fails_before, current_url, navigation_stack, navigation_depth>>
    /\ UNCHANGED <<i, search_attempts, products, failed_extractions, browser_open, exit_cause>>
    /\ UNCHANGED <<cfgVars, runVars, lsVars, memVars, aiVars, storeVars, apiVars>>

(***************************************************************************)
(* DataStorage (scraper/storage.py) and the file system                    *)
(***************************************************************************)
\* a file: whether it exists, the JSON records it holds, and whether the
\* text is a whole JSON document
NoFile == [exists |-> FALSE, json |-> <<>>, complete |-> TRUE]
CutFile == [exists |-> TRUE, json |-> <<>>, complete |-> FALSE]
\* the file a run before this one left at the output path
OldFile == [exists |-> TRUE, json |-> <<[is_product |-> "true", product_name |-> "\"old\""]>>,
            complete |-> TRUE]

None == "None"

\* the truth of a value in a condition
Truthy(val) == val \notin {"False", None, "[]", "{}"}

\* the record of a product, as the main loop collects it
ProductRecord(is_product) == [is_product |-> is_product]

\* is_product in the record extract_product_data answers: a boolean of the
\* records the code builds and of validated answers, any value of an answer
\* of the model that did not pass the validation
IsProductAnswers == {"True", "False", "maybe"}

\* how a write goes: it succeeds; it is refused before the file is opened; it
\* stops after the file was opened, at the fallback location too
DiskModes == {"ok", "denied", "cut"}

\* json.dump and json.load of a value and of a record
JsonOf(val) ==
    CASE val = "True" -> "true"
      [] val = "False" -> "false"
      [] val = "None" -> "null"
      [] val = "'P'" -> "\"P\""
      [] OTHER -> val
PyOf(val) ==
    CASE val = "true" -> "True"
      [] val = "false" -> "False"
      [] val = "null" -> "None"
      [] val = "\"P\"" -> "'P'"
      [] val = "\"old\"" -> "'old'"
      [] OTHER -> val
Dump(records) == [n \in 1..Len(records) |-> [key \in DOMAIN records[n] |-> JsonOf(records[n][key])]]
JsonLoad(json) == [n \in 1..Len(json) |-> [key \in DOMAIN json[n] |-> PyOf(json[n][key])]]
Written(records) == [exists |-> TRUE, json |-> Dump(records), complete |-> TRUE]

\* lines 44-58: the try block of save: the write at the output path
SaveTry(records, f, mode) ==
    CASE mode = "ok" -> [raised |-> "no", file |-> Written(records)]
      [] mode = "denied" -> [raised |-> "PermissionError", file |-> f]
      [] OTHER -> [raised |-> "OSError", file |-> CutFile]

\* lines 64-70: the write at the fallback location, its own errors caught
Fallback_None(records, t, mode) == t
Fallback(records, t, mode) == IF mode = "denied" THEN Written(records) ELSE CutFile

\* lines 27-72: DataStorage.save: what it returns, the exception it raises,
\* whether it met a write error, and the files after it
Save_EmptyWritten(records, f, t, mode) ==
    [returned |-> TRUE, raised |-> "no", error |-> FALSE, file |-> Written(records), tmp |-> t]
Save_Uncaught(records, f, t, mode) ==
    IF records = <<>>
    THEN [returned |-> FALSE, raised |-> "no", error |-> FALSE, file |-> f, tmp |-> t]
    ELSE [returned |-> SaveTry(records, f, mode).raised = "no",
          raised |-> SaveTry(records, f, mode).raised,
          error |-> SaveTry(records, f, mode).raised # "no",
          file |-> SaveTry(records, f, mode).file, tmp |-> t]
Save(records, f, t, mode) ==
    IF records = <<>>
    THEN [returned |-> FALSE, raised |-> "no", error |-> FALSE, file |-> f, tmp |-> t]
    ELSE IF SaveTry(records, f, mode).raised = "no"
    THEN [returned |-> TRUE, raised |-> "no", error |-> FALSE,
          file |-> SaveTry(records, f, mode).file, tmp |-> t]
    ELSE [returned |-> FALSE, raised |-> "no", error |-> TRUE,
          file |-> SaveTry(records, f, mode).file, tmp |-> Fallback(records, t, mode)]

\* lines 86-95: the try block of load
LoadTry(f) ==
    IF ~f.exists THEN [raised |-> "no", value |-> <<>>]
    ELSE IF ~f.complete THEN [raised |-> "JSONDecodeError", value |-> <<>>]
    ELSE [raised |-> "no", value |-> JsonLoad(f.json)]

\* lines 74-99: DataStorage.load
Load_Raw(f) == [raised |-> "no", value |-> IF f.exists /\ f.complete THEN f.json ELSE <<>>]
Load_Uncaught(f) == LoadTry(f)
Load(f) == IF LoadTry(f).raised # "no" THEN [raised |-> "no", value |-> <<>>] ELSE LoadTry(f)

\* storage.save(records) called: the files and the record of the call
SaveCalled(records) ==
    /\ file' = Save(records, file, tmp_file, disk).file
    /\ tmp_file' = Save(records, file, tmp_file, disk).tmp
    /\ sv_records' = records
    /\ sv_returned' = IF Save(records, file, tmp_file, disk).returned THEN "True" ELSE "False"
    /\ sv_error' = Save(records, file, tmp_file, disk).error
    /\ store_raised' = Save(records, file, tmp_file, disk).raised
    /\ store_pc' = "saved"

\* the longest collection saved, and the collections saved
MaxSaved == 2
Records == {[is_product |-> "True", product_name |-> "'P'", price |-> "None"],
            [is_product |-> "False", error |-> "'e'"]}
Collections == UNION {[1..n -> Records] : n \in 0..MaxSaved}

\* DataStorage.save(products)
StorageSave ==
    /\ store_pc \in {"idle", "saved", "loaded"}
    /\ \E records \in Collections : SaveCalled(records)
    /\ ld_result' = <<>>
    /\ UNCHANGED disk
    /\ UNCHANGED <<navVars, lsVars, memVars, aiVars, apiVars>>

\* DataStorage.load()
StorageLoad ==
    /\ store_pc \in {"idle", "saved", "loaded"}
    /\ ld_result' = Load(file).value
    /\ store_raised' = Load(file).raised
    /\ store_pc' = "loaded"
    /\ UNCHANGED <<file, tmp_file, disk, sv_records, sv_returned, sv_error>>
    /\ UNCHANGED <<navVars, lsVars, memVars, aiVars, apiVars>>

\* the file system changes its mind about the next write
DiskChanges ==
    /\ store_pc # "off"
    /\ \E mode \in DiskModes \ {disk} : disk' = mode
    /\ UNCHANGED <<file, tmp_file, store_pc, sv_records, sv_returned, sv_error, ld_result,
                   store_raised>>
    /\ UNCHANGED <<navVars, lsVars, memVars, aiVars, apiVars>>

\* no call of the storage made yet
NoCall ==
    /\ sv_records = <<>>
    /\ sv_returned = "none"
    /\ sv_error = FALSE
    /\ ld_result = <<>>
    /\ store_raised = "no"

\* lines 14-25: a DataStorage just constructed, the output path empty or
\* holding the file of a run before
InitStore ==
    /\ file \in {NoFile, OldFile}
    /\ tmp_file = NoFile
    /\ disk \in DiskModes
    /\ store_pc = "idle"
    /\ NoCall

\* a DataStorage at an empty output path, on a disk that takes every write
InitStoreOk ==
    /\ file = NoFile
    /\ tmp_file = NoFile
    /\ disk = "ok"
    /\ store_pc = "idle"
    /\ NoCall

InitStoreIdle ==
    /\ file = NoFile
    /\ tmp_file = NoFile
    /\ disk = "ok"
    /\ store_pc = "off"
    /\ NoCall


(***************************************************************************)
(* run_scraper.main: the collection loop                                   *)
(***************************************************************************)
\* while i < args.count and search_attempts < args.count * 2
LoopGuard == i < count /\ search_attempts < count * 2

\* lines 164-171: one more attempt: search_and_navigate is called
StartAttempt ==
    /\ pc = "main_loop"
    /\ LoopGuard
    /\ search_attempts' = search_attempts + 1
    /\ pc' = "sn_enter"
    /\ CallStart
    /\ result' = "none"
    /\ fails_before' = search_failures
    /\ UNCHANGED <<i, products, failed_extractions, browser_open, exit_cause, search_failures,
                   current_url>>
    /\ UNCHANGED <<cfgVars, runVars, lsVars, memVars, aiVars, storeVars, apiVars>>

\* line 164: the loop ends by its own test
LoopDone ==
    /\ pc = "main_loop"
    /\ ~LoopGuard
    /\ pc' = "cleanup"
    /\ exit_cause' = IF i < count THEN "attempt_limit" ELSE "complete"
    /\ UNCHANGED <<i, search_attempts, products, failed_extractions, browser_open>>
    /\ UNCHANGED <<cfgVars, engineVars, callVars, runVars, lsVars, memVars, aiVars, storeVars, apiVars>>

\* lines 171-176: a failed search goes to the next attempt, a successful one
\* to the extraction
AfterSearch ==
    /\ pc = "sn_return"
    /\ pc' = IF result = "true" THEN "extract" ELSE "main_loop"
    /\ streak' = IF result = "true" THEN 0 ELSE streak + 1
    /\ failed_run' = IF outcome = "fail" THEN failed_run + 1 ELSE 0
    /\ CallStart
    /\ UNCHANGED <<i, search_attempts, products, failed_extractions, browser_open, exit_cause>>
    /\ UNCHANGED <<search_failures, current_url, result, fails_before>>
    /\ UNCHANGED <<cfgVars, lsVars, memVars, aiVars, storeVars, apiVars>>

\* lines 199-201: len(products) % 5 == 0 or len(products) == 1
IntermediateSave(n) == n % save_every = 0 \/ n = 1

\* lines 189-209: the extraction answers a record; a product is collected,
\* and the products are saved after the first one and after every fifth
Extract ==
    /\ pc = "extract"
    /\ \E is_product \in answers :
          IF Truthy(is_product)
          THEN /\ products' = Append(products, ProductRecord(is_product))
               /\ i' = i + 1
               /\ UNCHANGED failed_extractions
               /\ IF IntermediateSave(Len(products'))
                  THEN SaveCalled(products')
                  ELSE UNCHANGED <<file, tmp_file, store_pc, sv_records, sv_returned,
                                   sv_error, store_raised>>
          ELSE /\ failed_extractions' = failed_extractions + 1
               /\ UNCHANGED <<products, i, file, tmp_file, store_pc, sv_records,
                              sv_returned, sv_error, store_raised>>
    /\ pc' = "main_loop"
    /\ UNCHANGED <<search_attempts, browser_open, exit_cause, disk, ld_result>>
    /\ UNCHANGED <<cfgVars, engineVars, callVars, runVars, lsVars, memVars, aiVars, apiVars>>

\* lines 219-224: the user interrupts the run, or a step of the loop raises
Interrupted ==
    /\ pc \in {"main_loop", "sn_enter", "sn_captcha", "nav_loop", "nav_classify",
               "sn_return", "extract"}
    /\ pc' = "cleanup"
    /\ \E why \in {"interrupt", "exception"} :
          /\ why = "exception" => pc = "extract"
          /\ exit_cause' = why
    /\ CallStart
    /\ UNCHANGED <<i, search_attempts, products, failed_extractions, browser_open>>
    /\ UNCHANGED <<search_failures, current_url, result, fails_before>>
    /\ UNCHANGED <<cfgVars, runVars, lsVars, memVars, aiVars, storeVars, apiVars>>

\* successful_extractions is incremented with every append to products
successful_extractions == Len(products)

\* line 244: the rate in the last log line, computed whether or not an
\* extraction was attempted
FinalRate(successes, failures) ==
    IF successes + failures = 0 THEN "ZeroDivisionError" ELSE "no"

\* lines 226-244: the browser is closed, the products are saved if there
\* are any, and the last lines are logged
Cleanup_BrowserOnly ==
    /\ pc = "cleanup"
    /\ browser_open' = FALSE
    /\ pc' = "done"
    /\ UNCHANGED <<i, search_attempts, products, failed_extractions, exit_cause>>
    /\ UNCHANGED <<cfgVars, engineVars, callVars, runVars, lsVars, memVars, aiVars, storeVars, apiVars>>
Cleanup ==
    /\ pc = "cleanup"
    /\ browser_open' = FALSE
    /\ pc' = IF FinalRate(successful_extractions, failed_extractions) = "ZeroDivisionError"
             THEN "raised" ELSE "done"
    /\ IF products # <<>>
       THEN SaveCalled(products)
       ELSE UNCHANGED <<file, tmp_file, store_pc, sv_records, sv_returned, sv_error,
                        store_raised>>
    /\ UNCHANGED <<i, search_attempts, products, failed_extractions, exit_cause, disk, ld_result>>
    /\ UNCHANGED <<cfgVars, engineVars, callVars, runVars, lsVars, memVars, aiVars, apiVars>>

RunStart(run) ==
    /\ count = run.count
    /\ web = run.web
    /\ answers = run.answers
    /\ pc = "main_loop"
    /\ i = 0
    /\ search_attempts = 0
    /\ products = <<>>
    /\ failed_extractions = 0
    /\ browser_open = TRUE
    /\ exit_cause = "none"
    /\ search_failures = 0
    /\ current_url = "blank"
    /\ navigation_stack = <<>>
    /\ navigation_depth = 0
    /\ result = "none"
    /\ outcome = "none"
    /\ cause = "none"
    /\ did = {}
    /\ classes = <<>>
    /\ fresh = TRUE
    /\ visits = <<>>
    /\ follows = 0
    /\ last_recs = <<>>
    /\ nav_target = NoUrl
    /\ fails_before = 0
    /\ streak = 0
    /\ failed_run = 0

InitNav == \E run \in Runs : RunStart(run)

\* LinkSelector.__init__: no link chosen, an empty memory
InitLS ==
    /\ chosen_links = <<>>
    /\ ls_memory = <<>>
    /\ ls_links = <<>>
    /\ ls_sample = <<>>
    /\ ls_response = [match |-> FALSE, digits |-> <<>>]
    /\ ls_result = NoUrl
    /\ ls_path = "none"
    /\ ls_before = <<>>
    /\ ls_returned = {}
    /\ ls_calls = 0

InitMemIdle ==
    /\ mem = <<>>
    /\ mem_max = 0
    /\ mem_added = <<>>
    /\ mem_context = <<>>
    /\ mem_ops = 0

InitNavIdle ==
    /\ count = 0
    /\ web = {}
    /\ answers = {}
    /\ pc = "off"
    /\ i = 0
    /\ search_attempts = 0
    /\ products = <<>>
    /\ failed_extractions = 0
    /\ browser_open = FALSE
    /\ exit_cause = "none"
    /\ search_failures = 0
    /\ current_url = "blank"
    /\ navigation_stack = <<>>
    /\ navigation_depth = 0
    /\ result = "none"
    /\ outcome = "none"
    /\ cause = "none"
    /\ did = {}
    /\ classes = <<>>
    /\ fresh = TRUE
    /\ visits = <<>>
    /\ follows = 0
    /\ last_recs = <<>>
    /\ nav_target = NoUrl
    /\ fails_before = 0
    /\ streak = 0
    /\ failed_run = 0

(***************************************************************************)
(* ConversationMemory (ai/memory.py)                                       *)
(***************************************************************************)
\* the largest capacity a memory is created with
MaxCap == 3
\* operations applied to one memory
MaxOps == 6
\* the items added
MemItems == {"x", "y"}

\* deque(maxlen = cap).append(item): the oldest item leaves a full deque
DequeAppend_Unbounded(buf, item, cap) == Append(buf, item)
DequeAppend(buf, item, cap) ==
    IF cap = 0 THEN buf
    ELSE IF Len(buf) >= cap THEN Append(Tail(buf), item)
    ELSE Append(buf, item)

\* no get_context result is at hand
NoContext == <<>>

\* "\n".join(lines): the lines with a line break between two of them
RECURSIVE JoinLines(_)
JoinLines(lines) ==
    IF Len(lines) = 0 THEN <<>>
    ELSE IF Len(lines) = 1 THEN lines[1]
    ELSE JoinLines(SubSeq(lines, 1, Len(lines) - 1)) \o <<"\n">> \o lines[Len(lines)]

\* ConversationMemory.get_context: the text returned, as its pieces
GetContext_NewestFirst(buf) ==
    IF buf = <<>> THEN <<"No previous context.">>
    ELSE JoinLines([k \in 1..Len(buf) |-> <<"- ", buf[Len(buf) + 1 - k]>>])
GetContext(buf) ==
    IF buf = <<>> THEN <<"No previous context.">>
    ELSE JoinLines([k \in 1..Len(buf) |-> <<"- ", buf[k]>>])

\* ConversationMemory.add
MemAdd ==
    /\ mem_ops < MaxOps
    /\ \E item \in MemItems :
          /\ mem' = DequeAppend(mem, item, mem_max)
          /\ mem_added' = Append(mem_added, item)
    /\ mem_context' = NoContext
    /\ mem_ops' = mem_ops + 1
    /\ UNCHANGED <<mem_max, navVars, lsVars, aiVars, storeVars, apiVars>>

\* ConversationMemory.clear
MemClear ==
    /\ mem_ops < MaxOps
    /\ mem' = <<>>
    /\ mem_added' = <<>>
    /\ mem_context' = NoContext
    /\ mem_ops' = mem_ops + 1
    /\ UNCHANGED <<mem_max, navVars, lsVars, aiVars, storeVars, apiVars>>

\* ConversationMemory.get_context
MemGetContext ==
    /\ mem_ops < MaxOps
    /\ mem_context' = GetContext(mem)
    /\ mem_ops' = mem_ops + 1
    /\ UNCHANGED <<mem, mem_max, mem_added, navVars, lsVars, aiVars, storeVars, apiVars>>

\* ConversationMemory(name, max_items): an empty deque of that capacity
InitMem ==
    /\ mem_max \in 0..MaxCap
    /\ mem = <<>>
    /\ mem_added = <<>>
    /\ mem_context = NoContext
    /\ mem_ops = 0

(***************************************************************************)
(* LinkSelector.select_link (ai/link_selector.py)                          *)
(***************************************************************************)
\* the longest list of links offered to select_link
MaxLinks == 3
\* select_link calls made on one LinkSelector
MaxCalls == 5
\* the largest digit in a model response
MaxDigit == 4
\* more new links than this are sampled down to this many
sample_size == 10
\* chosen_links is cut to this many after a parsed selection
history_limit == 20
\* max_items of the memory "link_selection"
link_memory_items == 10

LinkLists == UNION {[1..n -> Urls] : n \in 0..MaxLinks}

\* a response: whether SELECTION:\s*(\d+) matches, and the digits matched
\* (one digit, or two: with a leading zero, and ten)
DigitStrings == {<<d>> : d \in 0..MaxDigit} \cup {<<0, 1>>, <<1, 0>>}
Responses ==
    {[match |-> FALSE, digits |-> <<>>]} \cup
    {[match |-> TRUE, digits |-> d] : d \in DigitStrings}

\* int(selection_match.group(1))
RECURSIVE ToInt(_)
ToInt(d) == IF d = <<>> THEN 0 ELSE 10 * ToInt(SubSeq(d, 1, Len(d) - 1)) + d[Len(d)]

\* seq[k] of Python, k counted from 0, a negative k from the end
PyIndex(seq, k) == IF k >= 0 THEN seq[k + 1] ELSE seq[Len(seq) + k + 1]

\* [link for link in links if link not in self.chosen_links]
NewLinks_Unfiltered(links, chosen) == links
NewLinks(links, chosen) == SelectSeq(links, LAMBDA l : l \notin Range(chosen))

\* the history and the candidates after the reset of an exhausted list
Candidates(links, chosen) ==
    LET new_links == NewLinks(links, chosen)
    IN  IF new_links = <<>>
        THEN [history |-> <<>>, new_links |-> links]
        ELSE [history |-> chosen, new_links |-> new_links]

\* random.sample(new_links, 10) when there are more than 10, else new_links
Samples(new_links) ==
    IF Len(new_links) > sample_size
    THEN {[k \in 1..sample_size |-> new_links[f[k]]] :
             f \in {g \in [1..sample_size -> 1..Len(new_links)] :
                       \A a, b \in 1..sample_size : a # b => g[a] # g[b]}}
    ELSE {new_links}

\* if 1 <= selection_num <= len(sample_links)
InRange_Loose(n, K) == n <= K
InRange(n, K) == 1 <= n /\ n <= K

\* the response selects a candidate of the sample
Parsed(resp, sample) == resp.match /\ InRange(ToInt(resp.digits), Len(sample))

\* self.chosen_links.append(selected_link)
RecordChosen_Dropped(chosen, link) == chosen
RecordChosen(chosen, link) == Append(chosen, link)

\* self.chosen_links = self.chosen_links[-20:] when longer than 20
LimitHistory(chosen) ==
    IF Len(chosen) > history_limit
    THEN SubSeq(chosen, Len(chosen) - history_limit + 1, Len(chosen))
    ELSE chosen

\* no call is under way, and one more may be made
LsIdle == ls_path = "none" /\ ls_calls < MaxCalls

\* what every call records as it starts
LsCallStart(links) ==
    /\ ls_calls' = ls_calls + 1
    /\ ls_links' = links
    /\ ls_before' = chosen_links
    /\ UNCHANGED ls_returned

\* lines 42-44: no links, None is returned
SelectNothing ==
    /\ LsIdle
    /\ LsCallStart(<<>>)
    /\ ls_sample' = <<>>
    /\ ls_result' = NoUrl
    /\ ls_path' = "empty"
    /\ UNCHANGED <<chosen_links, ls_memory, ls_response, navVars, memVars, aiVars, storeVars, apiVars>>

\* lines 52-141: the response names a candidate by its number
SelectParsedFrom(lists) ==
    /\ \E links \in lists :
       LET pool == Candidates(links, chosen_links)
       IN  \E sample \in Samples(pool.new_links), resp \in Responses :
              /\ Parsed(resp, sample)
              /\ LsCallStart(links)
              /\ ls_sample' = sample
              /\ ls_response' = resp
              /\ ls_memory' = DequeAppend(ls_memory, "selection", link_memory_items)
              /\ ls_result' = PyIndex(sample, ToInt(resp.digits) - 1)
              /\ chosen_links' = LimitHistory(RecordChosen(pool.history, ls_result'))
              /\ ls_path' = "parsed"
              /\ UNCHANGED <<navVars, memVars, aiVars, storeVars, apiVars>>

SelectParsed == LsIdle /\ SelectParsedFrom(LinkLists \ {<<>>})

\* lines 52-120 and 142-157: no number, or a number out of range: any
\* candidate of the sample is returned
SelectFallbackFrom(lists) ==
    /\ \E links \in lists :
       LET pool == Candidates(links, chosen_links)
       IN  \E sample \in Samples(pool.new_links), resp \in Responses :
              /\ ~Parsed(resp, sample)
              /\ LsCallStart(links)
              /\ ls_sample' = sample
              /\ ls_response' = resp
              /\ ls_memory' = DequeAppend(ls_memory, "selection", link_memory_items)
              /\ \E k \in 1..Len(sample) : ls_result' = sample[k]
              /\ chosen_links' = RecordChosen(pool.history, ls_result')
              /\ ls_path' = "fallback"
              /\ UNCHANGED <<navVars, memVars, aiVars, storeVars, apiVars>>

SelectFallback == LsIdle /\ SelectFallbackFrom(LinkLists \ {<<>>})

\* a crawl that offers one link it has not offered before at each call
CrawlCalls == 22
CrawlLinks ==
    <<"u01", "u02", "u03", "u04", "u05", "u06", "u07", "u08", "u09", "u10", "u11", "u12",
      "u13", "u14", "u15", "u16", "u17", "u18", "u19", "u20", "u21", "u22", "u23", "u24">>
Offered(n) == {<<CrawlLinks[(n % Len(CrawlLinks)) + 1]>>}
CrawlIdle == ls_path = "none" /\ ls_calls < CrawlCalls
CrawlParsed == CrawlIdle /\ SelectParsedFrom(Offered(ls_calls))
CrawlFallback == CrawlIdle /\ SelectFallbackFrom(Offered(ls_calls))

\* lines 44, 141 and 157: the caller has the result, the locals of the call
\* are gone
SelectReturned ==
    /\ ls_path \in {"empty", "parsed", "fallback"}
    /\ ls_returned' = ls_returned \cup (IF ls_result = NoUrl THEN {} ELSE {ls_result})
    /\ ls_links' = <<>>
    /\ ls_sample' = <<>>
    /\ ls_response' = [match |-> FALSE, digits |-> <<>>]
    /\ ls_result' = NoUrl
    /\ ls_path' = "none"
    /\ ls_before' = <<>>
    /\ UNCHANGED <<chosen_links, ls_memory, ls_calls, navVars, memVars, aiVars, storeVars, apiVars>>

NextLS ==
    \/ SelectNothing
    \/ SelectParsed
    \/ SelectFallback
    \/ SelectReturned

NextMem ==
    \/ MemAdd
    \/ MemClear
    \/ MemGetContext

(***************************************************************************)
(* Model responses and JsonOutputParser (ai/schema_parser.py)              *)
(***************************************************************************)
\* A text is a sequence of pieces: a mark (a brace, a fence, white space,
\* words, ...) or a member "key": value of a JSON object.  Values are written
\* as strings: "True", "False", "None", "90", "[]", ...
Mark(m) == [k |-> m, v |-> "#"]
Member(key, val) == [k |-> key, v |-> val]
IsMember(t) == t.v # "#"

LB == Mark("{")
RB == Mark("}")
FenceJson == Mark("fence json")
Fence == Mark("fence")
WS == Mark(" ")
Words == Mark("words")
Number == Mark("42")
\* brackets nested deeper than the interpreter's recursion limit
DeepNest == Mark("[[[[")

\* a JSON value: an object (a mapping key -> value) or a number
Obj(m) == [t |-> "object", m |-> m]
Num == [t |-> "number", m |-> <<>>]
NoValue == [t |-> "none", m |-> <<>>]

\* the fields of the two schemas, in declaration order, and a key of neither.
\* ProductData is modelled by six of its 21 fields.
PageFields == <<"page_type", "confidence", "reason", "recommended_links">>
ProductFields ==
    <<"is_product", "product_name", "price", "source_url", "source_domain", "error">>
ExtraKey == "note"
KeyOrder == PageFields \o ProductFields \o <<ExtraKey, "raw_response">>

\* class PageAnalysisResult, class ProductData: the required fields, and the
\* values a field accepts (None is accepted by the optional ones)
Schemas == {"PageAnalysisResult", "ProductData"}
Fields(schema) == IF schema = "PageAnalysisResult" THEN PageFields ELSE ProductFields
Required(schema) ==
    IF schema = "PageAnalysisResult" THEN {"page_type", "confidence", "reason"}
    ELSE {"is_product"}
Accepts(schema, key, val) ==
    CASE key = "confidence" -> val \in {"90", "'90'"}
      [] key = "is_product" -> val \in {"True", "False"}
      [] key = "price" -> val # "{}"
      [] key \in Required(schema) -> val # None
      [] OTHER -> TRUE

\* the conversion of an accepted value to the type of its field
Coerce(key, val) == IF key = "confidence" /\ val = "'90'" THEN "90" ELSE val

\* text.strip()
RECURSIVE Strip(_)
Strip(text) ==
    IF text = <<>> THEN text
    ELSE IF text[1] = WS THEN Strip(Tail(text))
    ELSE IF text[Len(text)] = WS THEN Strip(SubSeq(text, 1, Len(text) - 1))
    ELSE text

\* json.dumps of an object: its members between braces
Dumps(m) ==
    <<LB>> \o [n \in 1..Len(SelectSeq(KeyOrder, LAMBDA key : key \in DOMAIN m)) |->
                 Member(SelectSeq(KeyOrder, LAMBDA key : key \in DOMAIN m)[n],
                        m[SelectSeq(KeyOrder, LAMBDA key : key \in DOMAIN m)[n]])]
           \o <<RB>>

\* json.loads: the value of a text that is one JSON document; a
\* JSONDecodeError for any other text, a RecursionError for a document
\* nested too deeply
Loads(text0) ==
    LET text == Strip(text0)
    IN  IF text = <<DeepNest>> THEN [raised |-> "RecursionError", value |-> NoValue]
        ELSE IF text = <<Number>> THEN [raised |-> "no", value |-> Num]
        ELSE IF /\ Len(text) >= 2
                /\ text[1] = LB
                /\ text[Len(text)] = RB
                /\ \A n \in 2..(Len(text) - 1) : IsMember(text[n])
        THEN [raised |-> "no",
              value |-> Obj([key \in {text[n].k : n \in 2..(Len(text) - 1)} |->
                               text[CHOOSE n \in 2..(Len(text) - 1) :
                                       /\ text[n].k = key
                                       /\ \A j \in (n + 1)..(Len(text) - 1) :
                                             text[j].k # key].v])]
        ELSE [raised |-> "JSONDecodeError", value |-> NoValue]

\* the places of a piece in a text; str.find and str.rfind (0: not found)
Places(text, marks) == {n \in 1..Len(text) : text[n] \in marks}
Find(text, mark) ==
    IF Places(text, {mark}) = {} THEN 0
    ELSE CHOOSE n \in Places(text, {mark}) : \A j \in Places(text, {mark}) : n <= j
RFind(text, mark) ==
    IF Places(text, {mark}) = {} THEN 0
    ELSE CHOOSE n \in Places(text, {mark}) : \A j \in Places(text, {mark}) : n >= j

\* text.split(opening, 1)[1].split(fence, 1)[0].strip(); the fence that opens
\* a json block holds the three backquotes that close a block
InsideFence(text, opening) ==
    LET after == SubSeq(text, Find(text, opening) + 1, Len(text))
        closing == Places(after, {Fence, FenceJson})
        upto == IF closing = {} THEN Len(after)
                ELSE (CHOOSE n \in closing : \A j \in closing : n <= j) - 1
    IN  Strip(SubSeq(after, 1, upto))

\* JsonOutputParser._extract_json
ExtractJson_FenceKept(text0) ==
    [raised |-> Loads(Strip(text0)).raised, text |-> Strip(text0)]
ExtractJson(text0) ==
    LET text == Strip(text0)
    IN  IF Loads(text).raised = "RecursionError"
        THEN [raised |-> "RecursionError", text |-> text]
        ELSE IF Loads(text).raised = "no" THEN [raised |-> "no", text |-> text]
        ELSE IF Find(text, FenceJson) # 0
        THEN [raised |-> "no", text |-> InsideFence(text, FenceJson)]
        ELSE IF Find(text, Fence) # 0
        THEN [raised |-> "no", text |-> InsideFence(text, Fence)]
        ELSE IF Find(text, LB) # 0 /\ RFind(text, RB) # 0 /\ Find(text, LB) < RFind(text, RB)
        THEN [raised |-> "no", text |-> SubSeq(text, Find(text, LB), RFind(text, RB))]
        ELSE [raised |-> "no", text |-> text]

\* pydantic_model.parse_obj(data): a ValidationError unless data is an object
\* that has every required field and an accepted value in every field
Valid(schema, data) ==
    /\ data.t = "object"
    /\ Required(schema) \subseteq DOMAIN data.m
    /\ \A key \in DOMAIN data.m \cap Range(Fields(schema)) :
          \/ Accepts(schema, key, data.m[key])
          \/ key \notin Required(schema) /\ data.m[key] = None

\* validated.dict(): every field of the schema, None for an absent one, and
\* no other key
ValidatedDict_ExtrasKept(schema, data) == data
ValidatedDict(schema, data) ==
    Obj([key \in Range(Fields(schema)) |->
            IF key \in DOMAIN data.m THEN Coerce(key, data.m[key]) ELSE None])

\* JsonOutputParser.parse with a pydantic model
Parse(text, schema) ==
    LET json_str == ExtractJson(text)
        data == Loads(json_str.text)
    IN  IF json_str.raised # "no" THEN [raised |-> json_str.raised, value |-> NoValue]
        ELSE IF data.raised = "JSONDecodeError"
        THEN [raised |-> "ValueError", value |-> NoValue]
        ELSE IF data.raised # "no" THEN [raised |-> data.raised, value |-> NoValue]
        ELSE IF Valid(schema, data.value)
        THEN [raised |-> "no", value |-> ValidatedDict(schema, data.value)]
        ELSE [raised |-> "no", value |-> data.value]

(***************************************************************************)
(* OllamaClient.generate and generate_structured (ai/ollama_client.py)     *)
(***************************************************************************)
\* the largest max_retries and retry_delay a call is made with
MaxRetries == 2
MaxDelay == 2

\* the JSON objects a model answers with: any fields left out, a key outside
\* the schemas, values the schemas accept and values they refuse
Vals(key) ==
    CASE key = "page_type" -> {"CATEGORY", "PRODUCT"}
      [] key = "confidence" -> {"90", "'90'", "high"}
      [] key = "reason" -> {"r"}
      [] key = "recommended_links" -> {"[]", "[l1]", None}
      [] key = "is_product" -> {"True", "False", "maybe"}
      [] key = "product_name" -> {"P"}
      [] key = "price" -> {"9", "{}"}
      [] key = "source_url" -> {"u_model"}
      [] key = "source_domain" -> {"d_model"}
      [] key = "error" -> {"e"}
      [] OTHER -> {"n"}
RECURSIVE Objects(_)
Objects(keys) ==
    IF keys = {} THEN {[key \in {} |-> None]}
    ELSE LET last == CHOOSE key \in keys : TRUE
             rest == Objects(keys \ {last})
         IN  rest \cup {[key \in DOMAIN m \cup {last} |-> IF key = last THEN val ELSE m[key]] :
                           m \in rest, val \in Vals(last)}
Documents ==
    {Dumps(m) : m \in Objects(Range(PageFields) \cup {ExtraKey})
                        \cup Objects(Range(ProductFields) \cup {ExtraKey})}

\* the texts of a model: a document alone, in a json block, in a plain block,
\* among words; and texts that hold no document
Texts ==
    Documents
    \cup {<<FenceJson, WS>> \o d \o <<WS, Fence>> : d \in Documents}
    \cup {<<Words, Fence>> \o d \o <<Fence>> : d \in Documents}
    \cup {<<Words>> \o d \o <<Words>> : d \in Documents}
    \cup {<<>>, <<Words>>, <<Number>>, <<DeepNest>>, <<FenceJson, DeepNest, Fence>>,
          <<LB, Words, RB>>, <<Words, RB, LB>>, <<FenceJson, Number>>}

\* what a request comes to: a 200 response with a text, another status, or
\* an exception of requests.post or of response.json()
Failures == {"500", "timeout"}

\* f"Error: {response.status_code}", f"Error: {str(e)}"
ErrorText(detail) == <<Mark("Error: "), Mark(detail)>>
NoText == <<Mark("none")>>

\* retries <= max_retries
RetryAllowed_OffByOne(n, limit) == n < limit
RetryAllowed(n, limit) == n <= limit

\* retry_delay * (2 ** (retries - 1))
Backoff_Linear(delay, n) == delay * n
Backoff(delay, n) == delay * 2 ^ (n - 1)

\* lines 96-129: a request is answered with status 200, its text is returned
GenRequestOk ==
    /\ gen_pc = "gen_loop"
    /\ RetryAllowed(retries, max_retries)
    /\ \E text \in Texts :
          /\ gen_outcomes' = Append(gen_outcomes, "ok")
          /\ gen_result' = text
    /\ gen_pc' = "gen_returned"
    /\ UNCHANGED <<max_retries, retry_delay, retries, gen_waits, output_schema,
                   st_result, st_raised>>
    /\ UNCHANGED <<navVars, lsVars, memVars, anVars, exVars, storeVars, apiVars>>

\* lines 130-154: a request fails (another status, or an exception): after a
\* wait the next one is sent, or the error text is returned
GenRequestFailed ==
    /\ gen_pc = "gen_loop"
    /\ RetryAllowed(retries, max_retries)
    /\ retries' = retries + 1
    /\ \E failure \in Failures :
          /\ gen_outcomes' = Append(gen_outcomes, failure)
          /\ IF RetryAllowed(retries', max_retries)
             THEN /\ gen_waits' = Append(gen_waits, Backoff(retry_delay, retries'))
                  /\ UNCHANGED <<gen_pc, gen_result>>
             ELSE /\ gen_result' = ErrorText(failure)
                  /\ gen_pc' = "gen_returned"
                  /\ UNCHANGED gen_waits
    /\ UNCHANGED <<max_retries, retry_delay, output_schema, st_result, st_raised>>
    /\ UNCHANGED <<navVars, lsVars, memVars, anVars, exVars, storeVars, apiVars>>

\* lines 198-235: what generate_structured makes of the text of generate
GenerateStructured(text, schema) ==
    LET parsed == Parse(text, schema)
        again == Loads(ExtractJson(text).text)
    IN  IF parsed.raised = "no" THEN parsed
        ELSE IF parsed.raised # "ValueError" THEN parsed
        ELSE IF again.raised = "no" THEN again
        ELSE IF again.raised # "JSONDecodeError" THEN again
        ELSE [raised |-> "no",
              value |-> Obj([key \in {"is_product", "raw_response", "error"} |->
                               CASE key = "is_product" -> "False"
                                 [] key = "raw_response" -> "raw"
                                 [] OTHER -> "JSON parsing failed"])]

\* what generate returns: the text of a response, or an error text
GenerateResults == Texts \cup {ErrorText(failure) : failure \in Failures}

\* lines 156-235: generate_structured: generate is called, and its text parsed
StructCall ==
    /\ gen_pc = "st_call"
    /\ \E text \in GenerateResults :
          /\ gen_result' = text
          /\ st_result' = GenerateStructured(text, output_schema).value
          /\ st_raised' = GenerateStructured(text, output_schema).raised
    /\ gen_pc' = "st_returned"
    /\ UNCHANGED <<max_retries, retry_delay, retries, gen_outcomes, gen_waits,
                   output_schema>>
    /\ UNCHANGED <<navVars, lsVars, memVars, anVars, exVars, storeVars, apiVars>>

\* a call generate(prompt, max_retries, retry_delay) about to send its first
\* request
InitGen ==
    /\ gen_pc = "gen_loop"
    /\ max_retries \in 0..MaxRetries
    /\ retry_delay \in 1..MaxDelay
    /\ retries = 0
    /\ gen_outcomes = <<>>
    /\ gen_waits = <<>>
    /\ gen_result = NoText
    /\ output_schema = "none"
    /\ st_result = NoValue
    /\ st_raised = "no"

\* a call generate_structured(prompt, output_schema) about to call generate
InitStruct ==
    /\ gen_pc = "st_call"
    /\ max_retries = 3
    /\ retry_delay = 2
    /\ retries = 0
    /\ gen_outcomes = <<>>
    /\ gen_waits = <<>>
    /\ gen_result = NoText
    /\ output_schema \in Schemas
    /\ st_result = NoValue
    /\ st_raised = "no"

InitGenIdle ==
    /\ gen_pc = "off"
    /\ max_retries = 0
    /\ retry_delay = 0
    /\ retries = 0
    /\ gen_outcomes = <<>>
    /\ gen_waits = <<>>
    /\ gen_result = NoText
    /\ output_schema = "none"
    /\ st_result = NoValue
    /\ st_raised = "no"

\* lines 731-739: _ai_analyze_page in structured mode: what it makes of the
\* answer st of generate_structured.  Only an ImportError is caught there.
AnalyzePage(st) ==
    IF st.raised # "no" THEN st
    ELSE IF st.value.t # "object" THEN [raised |-> "AttributeError", value |-> NoValue]
    ELSE IF ~({"page_type", "confidence"} \subseteq DOMAIN st.value.m)
    THEN [raised |-> "KeyError", value |-> NoValue]
    ELSE IF st.value.m["page_type"] = "CATEGORY" /\ "recommended_links" \notin DOMAIN st.value.m
    THEN [raised |-> "no",
          value |-> Obj([key \in DOMAIN st.value.m \cup {"recommended_links"} |->
                           IF key = "recommended_links" THEN "[]" ELSE st.value.m[key]])]
    ELSE st

\* SearchEngine._ai_analyze_page with a model client and the schema parser
AnalyzeCall ==
    /\ gen_pc = "an_call"
    /\ \E text \in GenerateResults :
          \E st \in {GenerateStructured(text, "PageAnalysisResult")} :
             /\ gen_result' = text
             /\ an_result' = AnalyzePage(st).value
             /\ an_raised' = AnalyzePage(st).raised
    /\ gen_pc' = "an_returned"
    /\ UNCHANGED <<max_retries, retry_delay, retries, gen_outcomes, gen_waits,
                   output_schema, st_result, st_raised>>
    /\ UNCHANGED <<navVars, lsVars, memVars, exVars, storeVars, apiVars>>

\* _ai_analyze_page about to call generate_structured
InitAnalyze ==
    /\ gen_pc = "an_call"
    /\ max_retries = 3
    /\ retry_delay = 2
    /\ retries = 0
    /\ gen_outcomes = <<>>
    /\ gen_waits = <<>>
    /\ gen_result = NoText
    /\ output_schema = "PageAnalysisResult"
    /\ st_result = NoValue
    /\ st_raised = "no"

InitAnIdle ==
    /\ an_result = NoValue
    /\ an_raised = "no"

\* the page extract is called for
PageUrl == "u_page"
PageDomain == "d_page"

\* result.get(key, default)
Get(m, key, default) == IF key \in DOMAIN m THEN m[key] ELSE default

\* a mapping with a key set
Set(m, key, val) == [k \in DOMAIN m \cup {key} |-> IF k = key THEN val ELSE m[k]]

\* lines 205-209: the source of the page is added if not present
AddSource(m) ==
    LET with_url == IF "source_url" \notin DOMAIN m
                    THEN Set(m, "source_url", PageUrl) ELSE m
    IN  IF "source_domain" \notin DOMAIN m
        THEN Set(with_url, "source_domain", PageDomain) ELSE with_url

\* lines 195-231: the try block of _extract_structured: what it makes of the
\* answer st of generate_structured
ExtractStructured(st) ==
    IF st.raised # "no" THEN st
    ELSE IF st.value.t # "object" THEN [raised |-> "AttributeError", value |-> NoValue]
    ELSE IF Truthy(Get(st.value.m, "is_product", "False"))
    THEN [raised |-> "no", value |-> Obj(AddSource(st.value.m))]
    ELSE st

\* line 212: the item stored in memory after a successful extraction
Extracted(m) == <<"Extracted", Get(m, "product_name", "Unknown product"), PageDomain>>

\* line 268: the text the two patterns find in the response: what is between
\* the first two fences, or else from the first brace to the last
FallbackMatch(text) ==
    LET fences == Places(text, {Fence, FenceJson})
        first == CHOOSE n \in fences : \A j \in fences : n <= j
        second == CHOOSE n \in fences \ {first} : \A j \in fences \ {first} : n <= j
    IN  IF Cardinality(fences) >= 2
        THEN [found |-> TRUE, text |-> Strip(SubSeq(text, first + 1, second - 1))]
        ELSE IF Find(text, LB) # 0 /\ RFind(text, RB) > Find(text, LB)
        THEN [found |-> TRUE, text |-> SubSeq(text, Find(text, LB), RFind(text, RB))]
        ELSE [found |-> FALSE, text |-> <<>>]

\* a mapping that says the page is no product
NotProduct(error) ==
    Obj([key \in {"is_product", "error"} |-> IF key = "is_product" THEN "False" ELSE error])

\* lines 264-288: what the fallback makes of the text of generate
ExtractFallback(text) ==
    LET json_match == FallbackMatch(text)
        fallback_data == Loads(json_match.text)
    IN  IF ~json_match.found THEN NotProduct("Failed to parse product data")
        ELSE IF fallback_data.raised # "no" \/ fallback_data.value.t # "object"
        THEN NotProduct("Extraction failed")
        ELSE Obj(Set(Set(fallback_data.value.m, "source_url", PageUrl),
                     "source_domain", PageDomain))

\* lines 54-77, 195-231: extract with a client that has generate_structured:
\* the structured extraction returns, or stops on an exception
ExtractCall ==
    /\ gen_pc = "ex_call"
    /\ \E text \in GenerateResults :
          \E r \in {ExtractStructured(st) : st \in {GenerateStructured(text, "ProductData")}} :
             /\ gen_result' = text
             /\ ex_raised' = r.raised
             /\ IF r.raised = "no"
                THEN /\ ex_result' = r.value
                     /\ ex_path' = "structured"
                     /\ gen_pc' = "ex_returned"
                     /\ IF Truthy(Get(r.value.m, "is_product", "False"))
                        THEN /\ mem' = DequeAppend(mem, Extracted(r.value.m), mem_max)
                             /\ mem_added' = Append(mem_added, Extracted(r.value.m))
                        ELSE UNCHANGED <<mem, mem_added>>
                ELSE /\ gen_pc' = "ex_fallback"
                     /\ UNCHANGED <<ex_result, ex_path, mem, mem_added>>
    /\ UNCHANGED <<max_retries, retry_delay, retries, gen_outcomes, gen_waits,
                   output_schema, st_result, st_raised, ex_response>>
    /\ UNCHANGED <<mem_max, mem_context, mem_ops>>
    /\ UNCHANGED <<navVars, lsVars, anVars, storeVars, apiVars>>

\* lines 233-288: the except block of _extract_structured: generate is asked
\* again, with a simpler prompt
ExtractFallbackCall ==
    /\ gen_pc = "ex_fallback"
    /\ \E text \in GenerateResults :
          /\ ex_response' = text
          /\ ex_result' = ExtractFallback(text)
    /\ ex_path' = "fallback"
    /\ gen_pc' = "ex_returned"
    /\ UNCHANGED <<max_retries, retry_delay, retries, gen_outcomes, gen_waits,
                   gen_result, output_schema, st_result, st_raised, ex_raised>>
    /\ UNCHANGED <<navVars, lsVars, memVars, anVars, storeVars, apiVars>>

\* lines 43-52, 54-70: an AIProductExtractor, its memory of three items
\* empty, in a call of extract
InitExtract ==
    /\ gen_pc = "ex_call"
    /\ max_retries = 3
    /\ retry_delay = 2
    /\ retries = 0
    /\ gen_outcomes = <<>>
    /\ gen_waits = <<>>
    /\ gen_result = NoText
    /\ output_schema = "ProductData"
    /\ st_result = NoValue
    /\ st_raised = "no"
    /\ mem = <<>>
    /\ mem_max = extraction_memory_items
    /\ mem_added = <<>>
    /\ mem_context = NoContext
    /\ mem_ops = 0

InitExIdle ==
    /\ ex_raised = "no"
    /\ ex_response = NoText
    /\ ex_path = "none"
    /\ ex_result = NoValue

InitAiIdle == InitGenIdle /\ InitAnIdle /\ InitExIdle

(***************************************************************************)
(* DirectoryMonsterClient (extractor.py)                                   *)
(***************************************************************************)
\* the create_listing calls made on one client, and the seconds that pass
MaxCreates == 2
MaxClock == 1

Slugs == {"s1", "s2"}
Titles == {"'P'"}

\* f"listing_{int(time.time())}_{hash(title)}", f"site_{...}", f"category_{...}"
LocalId(kind, time, title) == [kind |-> kind, time |-> time, hash |-> title]
\* an identifier given by the API
ServerId(kind) == [kind |-> kind, time |-> 0, hash |-> "server"]

\* {"id": ..., "siteSlug": site_slug, **listing_data}: listing_data holds a
\* title and no id or siteSlug of its own (lines 1068-1084)
Listing(id, site_slug, title) == [id |-> id, siteSlug |-> site_slug, title |-> title]
NoEntity == Listing(LocalId("none", 0, "None"), "none", "None")

\* the local file: absent, a JSON list of listings, a text that is no JSON,
\* or a JSON document that is no list
ApiFile(kind, json) == [kind |-> kind, json |-> json]
DumpListings(items) ==
    [n \in 1..Len(items) |->
        [id |-> items[n].id, siteSlug |-> JsonOf(items[n].siteSlug),
         title |-> JsonOf(items[n].title)]]
LoadListings(json) ==
    [n \in 1..Len(json) |->
        [id |-> json[n].id, siteSlug |-> PyOf(json[n].siteSlug), title |-> PyOf(json[n].title)]]
OldListing == [id |-> LocalId("listing", 0, "\"P\""), siteSlug |-> "s1", title |-> "\"P\""]
StartFiles ==
    {ApiFile("absent", <<>>), ApiFile("list", <<OldListing>>), ApiFile("corrupt", <<>>),
     ApiFile("other", <<>>)}

\* lines 772-781: existing_data: the list in the file, or an empty list
ExistingData_Empty(f) == <<>>
ExistingData(f) == IF f.kind = "list" THEN LoadListings(f.json) ELSE <<>>

\* lines 783-786: the listing is appended to the list of the file and the
\* list is written
AppendTry(f, listing, mode) ==
    CASE mode = "ok" ->
            [raised |-> "no", file |-> ApiFile("list", DumpListings(Append(ExistingData(f), listing)))]
      [] mode = "denied" -> [raised |-> "PermissionError", file |-> f]
      [] OTHER -> [raised |-> "OSError", file |-> ApiFile("corrupt", <<>>)]

\* lines 770-790: the try block around it: an error of the write is caught
AppendToFile_NotWritten(f, listing, mode) ==
    [raised |-> "no", caught |-> AppendTry(f, listing, mode).raised, file |-> f]
AppendToFile_Overwrite(f, listing, mode) ==
    [raised |-> "no", caught |-> AppendTry(f, listing, mode).raised,
     file |-> IF mode = "ok" THEN ApiFile("list", DumpListings(<<listing>>))
              ELSE AppendTry(f, listing, mode).file]
AppendToFile_Uncaught(f, listing, mode) ==
    [raised |-> AppendTry(f, listing, mode).raised, caught |-> "no",
     file |-> AppendTry(f, listing, mode).file]
AppendToFile(f, listing, mode) ==
    [raised |-> "no", caught |-> AppendTry(f, listing, mode).raised,
     file |-> AppendTry(f, listing, mode).file]

\* lines 862-872: the listings of the file that have the site slug
ListFromFile_AllSlugs(f, site_slug) == ExistingData(f)
ListFromFile(f, site_slug) ==
    SelectSeq(ExistingData(f), LAMBDA d : d.siteSlug = site_slug)

\* what the API answers to a request that succeeds
ServerListings(site_slug) == <<Listing(ServerId("listing"), site_slug, "'P'")>>

\* int(time.time()) at a call: the clock stands or has moved on
Tick(time) == {time} \cup {t \in {time + 1} : t <= MaxClock}

\* what an operation leaves of the record of the operation before
Called(name, site_slug, answer) ==
    /\ api_op' = [name |-> name, slug |-> site_slug]
    /\ api_net' = IF mock_mode THEN api_net ELSE "yes"
    /\ api_answer' = answer
    /\ UNCHANGED <<mock_mode, api_start, pipeVars>>
    /\ UNCHANGED <<navVars, lsVars, memVars, aiVars>>
    /\ UNCHANGED <<file, tmp_file, disk, store_pc, sv_records, sv_returned, sv_error, ld_result,
                   store_raised>>

\* the requests a client not in mock mode sends: answered, or failed (an
\* exception, or a status of 400 and above)
Answers == IF mock_mode THEN {"none"} ELSE {"ok", "failed"}

\* lines 751-846: create_listing
CreateListing ==
    /\ Len(api_made) < MaxCreates
    /\ \E site_slug \in Slugs, title \in Titles, time \in Tick(api_clock), answer \in Answers :
          /\ api_clock' = time
          /\ IF ~mock_mode /\ answer = "ok"
             THEN /\ api_entity' = Listing(ServerId("listing"), site_slug, title)
                  /\ api_raised' = "no"
                  /\ UNCHANGED <<api_file, api_wrote, api_lost>>
             ELSE /\ api_entity' = Listing(LocalId("listing", time, title), site_slug, title)
                  /\ api_file' = AppendToFile(api_file, api_entity', disk).file
                  /\ api_wrote' = AppendToFile(api_file, api_entity', disk).caught
                  /\ api_lost' = (api_lost \/ api_wrote' # "no")
                  /\ api_raised' = AppendToFile(api_file, api_entity', disk).raised
          /\ api_made' = Append(api_made, api_entity')
          /\ api_list' = <<>>
          /\ Called("create_listing", site_slug, answer)

\* lines 848-895: list_listings
ListListings ==
    /\ \E site_slug \in Slugs, answer \in Answers :
          /\ api_list' = IF ~mock_mode /\ answer = "ok" THEN ServerListings(site_slug)
                         ELSE ListFromFile(api_file, site_slug)
          /\ Called("list_listings", site_slug, answer)
    /\ api_entity' = NoEntity
    /\ api_raised' = "no"
    /\ UNCHANGED <<api_file, api_clock, api_made, api_wrote, api_lost>>

\* lines 651-675: create_site
CreateSite ==
    /\ \E time \in Tick(api_clock), answer \in Answers :
          /\ api_clock' = time
          /\ api_entity' = IF ~mock_mode /\ answer = "ok"
                           THEN Listing(ServerId("site"), "none", "'P'")
                           ELSE Listing(LocalId("site", time, "None"), "none", "'P'")
          /\ Called("create_site", "none", answer)
    /\ api_list' = <<>>
    /\ api_raised' = "no"
    /\ UNCHANGED <<api_file, api_made, api_wrote, api_lost>>

\* lines 677-697: list_sites
ListSites ==
    /\ \E answer \in Answers :
          /\ api_list' = IF ~mock_mode /\ answer = "ok"
                         THEN <<Listing(ServerId("site"), "none", "'P'")>> ELSE <<>>
          /\ Called("list_sites", "none", answer)
    /\ api_entity' = NoEntity
    /\ api_raised' = "no"
    /\ UNCHANGED <<api_file, api_clock, api_made, api_wrote, api_lost>>

\* lines 699-724: create_category
CreateCategory ==
    /\ \E site_slug \in Slugs, time \in Tick(api_clock), answer \in Answers :
          /\ api_clock' = time
          /\ api_entity' = IF ~mock_mode /\ answer = "ok"
                           THEN Listing(ServerId("category"), site_slug, "'P'")
                           ELSE Listing(LocalId("category", time, "None"), site_slug, "'P'")
          /\ Called("create_category", site_slug, answer)
    /\ api_list' = <<>>
    /\ api_raised' = "no"
    /\ UNCHANGED <<api_file, api_made, api_wrote, api_lost>>

\* lines 726-749: list_categories
ListCategories ==
    /\ \E site_slug \in Slugs, answer \in Answers :
          /\ api_list' = IF ~mock_mode /\ answer = "ok"
                         THEN <<Listing(ServerId("category"), site_slug, "'P'")>> ELSE <<>>
          /\ Called("list_categories", site_slug, answer)
    /\ api_entity' = NoEntity
    /\ api_raised' = "no"
    /\ UNCHANGED <<api_file, api_clock, api_made, api_wrote, api_lost>>

----------------------------------------------------------------------------
(* extract_and_format (extractor.py)                                       *)

Credentials == {"OPENAI_API_KEY", "ANTHROPIC_API_KEY"}
LlmTypes == {"ollama", "openai", "anthropic"}

\* the steps of a run change nothing else
PipeStep ==
    UNCHANGED <<px_env, px_llm_type, px_commentary, px_submit, navVars, lsVars, memVars, aiVars,
                storeVars, clientVars>>

\* a step raises: the run goes to the handler of main_async
Raises(exception) ==
    /\ px_pc' = "raised"
    /\ px_raised' = exception
    /\ UNCHANGED px_net

\* lines 57-60 and 966-973: run_browser_use_extraction tests OPENAI_API_KEY
\* first; the agent then drives a browser with an OpenAI model, and may fail
RunBrowserUseExtraction ==
    /\ px_pc = "start"
    /\ \/ /\ "OPENAI_API_KEY" \notin px_env
          /\ Raises("ValueError")
       \/ /\ "OPENAI_API_KEY" \in px_env
          /\ px_net' = px_net \cup {"browser"}
          /\ \/ px_pc' = "extracted" /\ UNCHANGED px_raised
             \/ px_pc' = "raised" /\ px_raised' = "Exception"
    /\ PipeStep

\* the credential format_with_ai wants for an llm_type (lines 304-306,
\* 434-436); ollama wants none
Wanted(llm_type) ==
    CASE llm_type = "openai" -> {"OPENAI_API_KEY"}
      [] llm_type = "anthropic" -> {"ANTHROPIC_API_KEY"}
      [] OTHER -> {}

\* lines 981-988 and 897-932: format_with_ai with the llm_type of the run
FormatWithAi ==
    /\ px_pc = "extracted"
    /\ IF Wanted(px_llm_type) \subseteq px_env
       THEN /\ px_net' = px_net \cup {px_llm_type}
            /\ px_pc' = "formatted"
            /\ UNCHANGED px_raised
       ELSE Raises("ValueError")
    /\ PipeStep

\* lines 990-1000 and 548-564: generate_blog_commentary for each product; an
\* exception is logged inside the loop
GenerateCommentary ==
    /\ px_pc = "formatted"
    /\ px_net' = IF px_commentary /\ "OPENAI_API_KEY" \in px_env
                 THEN px_net \cup {"commentary"} ELSE px_net
    /\ px_pc' = "commented"
    /\ UNCHANGED px_raised
    /\ PipeStep

\* lines 1002-1110: the processed file is written and the products are
\* submitted by a client in mock mode (api_config holds no mock_mode)
SubmitAndReturn ==
    /\ px_pc = "commented"
    /\ px_pc' = "returned"
    /\ UNCHANGED <<px_net, px_raised>>
    /\ PipeStep

\* lines 1244-1247: main_async logs the exception and ends
MainLogsError ==
    /\ px_pc = "raised"
    /\ px_pc' = "logged"
    /\ UNCHANGED <<px_net, px_raised>>
    /\ PipeStep

InitPipe ==
    /\ px_pc = "start"
    /\ px_env \in SUBSET Credentials
    /\ px_llm_type \in LlmTypes
    /\ px_commentary \in BOOLEAN
    /\ px_submit \in BOOLEAN
    /\ px_net = {}
    /\ px_raised = "no"

InitPipeIdle ==
    /\ px_pc = "off"
    /\ px_env = {}
    /\ px_llm_type = "ollama"
    /\ px_commentary = FALSE
    /\ px_submit = FALSE
    /\ px_net = {}
    /\ px_raised = "no"

\* lines 628-649: a client just constructed, in the mode given
InitApi(mode) ==
    /\ mock_mode = mode
    /\ api_file \in StartFiles
    /\ api_start = api_file
    /\ api_clock = 0
    /\ api_made = <<>>
    /\ api_op = [name |-> "none", slug |-> "none"]
    /\ api_entity = NoEntity
    /\ api_list = <<>>
    /\ api_net = "no"
    /\ api_answer = "none"
    /\ api_wrote = "no"
    /\ api_lost = FALSE
    /\ api_raised = "no"
    /\ InitPipeIdle

InitClientIdle ==
    /\ mock_mode = FALSE
    /\ api_file = ApiFile("absent", <<>>)
    /\ api_start = api_file
    /\ api_clock = 0
    /\ api_made = <<>>
    /\ api_op = [name |-> "none", slug |-> "none"]
    /\ api_entity = NoEntity
    /\ api_list = <<>>
    /\ api_net = "no"
    /\ api_answer = "none"
    /\ api_wrote = "no"
    /\ api_lost = FALSE
    /\ api_raised = "no"

InitApiIdle == InitClientIdle /\ InitPipeIdle

\* the disk the local file of a client is on
InitApiDisk ==
    /\ file = NoFile
    /\ tmp_file = NoFile
    /\ disk \in DiskModes
    /\ store_pc = "idle"
    /\ NoCall

(***************************************************************************)
(* The specifications                                                      *)
(***************************************************************************)
\* a run of the scraper
Init == InitNav /\ InitLS /\ InitMemIdle /\ InitAiIdle /\ InitStoreOk /\ InitApiIdle

Next ==
    \/ StartAttempt
    \/ LoopDone
    \/ EnterAbort
    \/ SearchSubmitted
    \/ SearchFailed
    \/ CaptchaDetected
    \/ NoLinks
    \/ SelectFailed
    \/ SelectAndOpen
    \/ OpenFailed
    \/ LoopTop
    \/ LoopExhausted
    \/ AnalysisFailed
    \/ ClassifyProduct
    \/ ClassifyCategory
    \/ ClassifyCategoryNoRecs
    \/ ClassifyNeither
    \/ AfterSearch
    \/ Extract
    \/ Interrupted
    \/ Cleanup

Spec == Init /\ [][Next]_vars

\* a LinkSelector on its own, just constructed
InitSelector == InitNavIdle /\ InitLS /\ InitMemIdle /\ InitAiIdle /\ InitStoreIdle /\ InitApiIdle

SpecLS == InitSelector /\ [][NextLS]_vars

\* a LinkSelector through a long crawl
NextCrawl ==
    \/ CrawlParsed
    \/ CrawlFallback
    \/ SelectReturned

SpecCrawl == InitSelector /\ [][NextCrawl]_vars

\* a ConversationMemory on its own, just constructed
InitMemory == InitNavIdle /\ InitLS /\ InitMem /\ InitAiIdle /\ InitStoreIdle /\ InitApiIdle

SpecMem == InitMemory /\ [][NextMem]_vars

\* an OllamaClient on its own, in one call of generate
InitClient == InitNavIdle /\ InitLS /\ InitMemIdle /\ InitGen /\ InitAnIdle /\ InitExIdle /\ InitStoreIdle /\ InitApiIdle

NextGen ==
    \/ GenRequestOk
    \/ GenRequestFailed

SpecGen == InitClient /\ [][NextGen]_vars

\* an OllamaClient on its own, in one call of generate_structured
InitStructured == InitNavIdle /\ InitLS /\ InitMemIdle /\ InitStruct /\ InitAnIdle /\ InitExIdle /\ InitStoreIdle /\ InitApiIdle

NextStruct == StructCall

SpecStruct == InitStructured /\ [][NextStruct]_vars

\* a SearchEngine on its own, in one call of _ai_analyze_page
InitAnalysis == InitNavIdle /\ InitLS /\ InitMemIdle /\ InitAnalyze /\ InitAnIdle /\ InitExIdle /\ InitStoreIdle /\ InitApiIdle

NextAnalyze == AnalyzeCall

SpecAnalyze == InitAnalysis /\ [][NextAnalyze]_vars

\* an AIProductExtractor on its own, in one call of extract
InitExtraction == InitNavIdle /\ InitLS /\ InitExtract /\ InitAnIdle /\ InitExIdle /\ InitStoreIdle /\ InitApiIdle

NextExtract ==
    \/ ExtractCall
    \/ ExtractFallbackCall

SpecExtract == InitExtraction /\ [][NextExtract]_vars

\* a DataStorage on its own: collections are saved and loaded
InitStorage == InitNavIdle /\ InitLS /\ InitMemIdle /\ InitAiIdle /\ InitStore /\ InitApiIdle

NextStorage ==
    \/ StorageSave
    \/ StorageLoad
    \/ DiskChanges

SpecStorage == InitStorage /\ [][NextStorage]_vars

\* a DirectoryMonsterClient in mock mode
NextApi ==
    \/ CreateListing
    \/ ListListings
    \/ CreateSite
    \/ ListSites
    \/ CreateCategory
    \/ ListCategories
    \/ DiskChanges

InitMock == InitNavIdle /\ InitLS /\ InitMemIdle /\ InitAiIdle /\ InitApiDisk /\ InitApi(TRUE)

SpecMock == InitMock /\ [][NextApi]_vars

InitNet == InitNavIdle /\ InitLS /\ InitMemIdle /\ InitAiIdle /\ InitApiDisk /\ InitApi(FALSE)

\* the listings of a client that calls the API
NextNet ==
    \/ CreateListing
    \/ ListListings
    \/ DiskChanges

SpecNet == InitNet /\ [][NextNet]_vars

\* a run of extract_and_format under main_async
InitPipeline ==
    /\ InitNavIdle /\ InitLS /\ InitMemIdle /\ InitAiIdle /\ InitStoreIdle /\ InitClientIdle
    /\ InitPipe

NextPipeline ==
    \/ RunBrowserUseExtraction
    \/ FormatWithAi
    \/ GenerateCommentary
    \/ SubmitAndReturn
    \/ MainLogsError

SpecPipeline == InitPipeline /\ [][NextPipeline]_vars

\* a run of main in the small web, at an output path that may hold a file, on
\* a disk that may refuse a write; the steps of main go on until it ends
InitRun ==
    /\ RunStart([count |-> RunCount, web |-> SmallWeb, answers |-> {"True", "False"}])
    /\ InitLS /\ InitMemIdle /\ InitAiIdle /\ InitStore /\ InitApiIdle

\* the disk is read by save only: it changes before a step that may save
DiskChangesBeforeSave == pc \in {"extract", "cleanup"} /\ DiskChanges

NextRun ==
    \/ Next
    \/ DiskChangesBeforeSave

SpecRun == InitRun /\ [][NextRun]_vars /\ WF_vars(Next)

\* a run of main with a model whose answers do not all pass the validation
InitLoop ==
    /\ RunStart([count |-> RunCount, web |-> SmallWeb, answers |-> IsProductAnswers])
    /\ InitLS /\ InitMemIdle /\ InitAiIdle /\ InitStoreOk /\ InitApiIdle

SpecLoop == InitLoop /\ [][Next]_vars /\ WF_vars(Next)

(***************************************************************************)
(* Properties of the navigation loop and of the failure counter            *)
(***************************************************************************)
Last(s) == s[Len(s)]

\* C1: when the classifier answers CATEGORY, CATEGORY, PRODUCT, each CATEGORY
\* answer carrying a recommended link not yet visited, the call returns
\* success on the third page (navigation_depth 2, logged as depth 3), having
\* followed exactly two recommended links, and the navigation stack holds
\* exactly the three URLs the browser landed on, in visiting order.
C1_ScriptedRunFollowsTwoLinks ==
    (classes = <<"CATEGORY", "CATEGORY", "PRODUCT">> /\ fresh) =>
        /\ pc = "sn_return"
        /\ result = "true"
        /\ follows = 2
        /\ navigation_depth = 2
        /\ Len(navigation_stack) = 3
        /\ navigation_stack = visits

C1_Witness ==
    /\ classes = <<"CATEGORY", "CATEGORY", "PRODUCT">>
    /\ fresh
    /\ result = "true"
    /\ follows = 2
    /\ Cardinality(Range(navigation_stack)) = 3

\* C2: when the first recommended link of a CATEGORY page is on the
\* navigation stack, the link chosen is the second recommendation; when
\* there is no second one the call fails without any further navigation.
C2_VisitedLinkGivesWayToNext ==
    (last_recs # <<>> /\ last_recs[1].url \in Range(navigation_stack)) =>
        IF Len(last_recs) > 1
        THEN nav_target = last_recs[2].url
        ELSE /\ nav_target = NoUrl
             /\ pc = "sn_return"
             /\ result = "false"
             /\ Len(visits) = Len(navigation_stack)

C2_Witness ==
    /\ Len(last_recs) > 1
    /\ last_recs[1].url \in Range(navigation_stack)
    /\ last_recs[2].url \notin Range(navigation_stack)
    /\ nav_target = last_recs[2].url
    /\ pc = "nav_loop"
    /\ Len(visits) = Len(navigation_stack) + 1

\* C3: at most max_navigation_depth pages are classified in one call, and a
\* call that saw CATEGORY on every one of them returns False with the
\* failure counter one higher.
C3_DepthIsBounded ==
    /\ Len(classes) <= max_navigation_depth
    /\ (/\ pc = "sn_return"
        /\ Len(classes) = max_navigation_depth
        /\ \A k \in 1..Len(classes) : classes[k] = "CATEGORY")
       => (result = "false" /\ search_failures = fails_before + 1)

C3_Witness ==
    /\ pc = "sn_return"
    /\ Len(classes) = max_navigation_depth
    /\ \A k \in 1..Len(classes) : classes[k] = "CATEGORY"
    /\ cause = "max_depth"
    /\ navigation_depth = max_navigation_depth
    /\ result = "false"

\* C4: nothing is classified or opened after a PRODUCT or NEITHER answer:
\* PRODUCT returns True with the failure counter at 0, NEITHER returns False.
C4_ProductEndsWellNeitherEndsBadly ==
    /\ \A k \in 1..(Len(classes) - 1) : classes[k] = "CATEGORY"
    /\ (classes # <<>> /\ Last(classes) = "PRODUCT") =>
          /\ pc = "sn_return"
          /\ result = "true"
          /\ search_failures = 0
          /\ Len(visits) = Len(classes)
    /\ (classes # <<>> /\ Last(classes) = "NEITHER") =>
          /\ pc = "sn_return"
          /\ result = "false"
          /\ Len(visits) = Len(classes)

C4_Witness ==
    /\ classes # <<>>
    /\ Last(classes) = "PRODUCT"
    /\ fails_before > 0
    /\ search_failures = 0
    /\ result = "true"

\* C5 as stated: once max_search_failures calls in a row have returned
\* False, the next call is refused without any search or navigation.
C5_RefusedAfterFailedCalls ==
    (pc = "sn_return" /\ streak >= max_search_failures) =>
        (outcome = "abort" /\ did = {})

\* C5 as amended: the call that follows max_search_failures failed attempts
\* in a row (counted since the last success or the last refused call) is
\* refused: it returns False without search or navigation and sets the
\* counter back to 0; no other call is refused; a success sets the counter
\* to 0.
C5_RefusedAfterFailedAttempts ==
    pc = "sn_return" =>
        /\ failed_run >= max_search_failures =>
              (outcome = "abort" /\ did = {} /\ result = "false" /\ search_failures = 0)
        /\ outcome = "abort" => failed_run = max_search_failures
        /\ result = "true" => search_failures = 0

C5_Witness ==
    /\ pc = "sn_return"
    /\ outcome = "abort"
    /\ streak = max_search_failures
    /\ did = {}
    /\ search_failures = 0

BrowserFailures ==
    {"no_search_box", "captcha", "no_links", "analysis_failed", "navigation_exception"}

\* C6: a call that fails on the browser (no search box, CAPTCHA, no usable
\* link, failed page analysis, navigation exception) returns False with the
\* failure counter exactly one higher, without link selection or
\* classification after a missing search box or a CAPTCHA; the run then
\* returns to the head of the collection loop with the browser open and
\* its products kept, and makes the next attempt while the loop test holds.
C6_FailureAbandonsOnlyTheAttempt ==
    /\ [](pc = "sn_return" /\ cause \in BrowserFailures =>
            /\ result = "false"
            /\ search_failures = fails_before + 1
            /\ cause \in {"no_search_box", "captcha"} =>
                  (classes = <<>> /\ did \cap {"select", "classify"} = {}))
    /\ [][/\ (pc = "sn_return" /\ result = "false" /\ exit_cause' = exit_cause) =>
                /\ pc' = "main_loop"
                /\ browser_open'
                /\ UNCHANGED <<i, products, search_failures>>
          /\ (pc = "main_loop" /\ LoopGuard /\ exit_cause' = exit_cause) =>
                pc' = "sn_enter"]_vars

C6_Witness ==
    /\ pc = "sn_return"
    /\ cause = "captcha"
    /\ result = "false"
    /\ search_attempts > 1
    /\ fails_before > 0
    /\ search_failures = fails_before + 1
    /\ browser_open

(***************************************************************************)
(* Properties of LinkSelector.select_link and of ConversationMemory        *)
(***************************************************************************)
Selected == ls_path \in {"parsed", "fallback"}

\* C7 as stated: a link returned by an earlier call is returned again only
\* by a call all of whose offered links were returned before.
C7_ReturnedLinkNeverReturnedAgain ==
    (Selected /\ ls_result \in ls_returned) => Range(ls_links) \subseteq ls_returned

\* C7 as amended: a call never returns a link that is in the chosen-link
\* history when it starts, unless every offered link is in that history: then
\* the history is emptied, the candidates are the whole offered list and the
\* history afterwards holds the returned link alone.  (A link that left the
\* history, by such a reset or by the cut to history_limit links, can be
\* returned again.)
C7_HistoryExcludesChosenLinks ==
    Selected =>
        IF Range(ls_links) \subseteq Range(ls_before)
        THEN /\ ls_sample = ls_links
             /\ chosen_links = <<ls_result>>
        ELSE /\ ls_result \notin Range(ls_before)
             /\ Range(ls_sample) \cap Range(ls_before) = {}
             /\ Last(chosen_links) = ls_result

C7_Witness ==
    /\ Selected
    /\ Range(ls_links) \cap Range(ls_before) # {}
    /\ ~(Range(ls_links) \subseteq Range(ls_before))
    /\ ls_result \notin Range(ls_before)
    /\ Len(chosen_links) = 2

\* C8: a number parsed from the response picks the link only when it lies
\* in 1..K, K the number of candidates shown, and the link returned is then
\* the candidate with that number; any other number picks nothing.
C8_SelectionIndexInRange ==
    /\ ls_path = "parsed" =>
          /\ ls_response.match
          /\ ToInt(ls_response.digits) \in 1..Len(ls_sample)
          /\ ls_result = ls_sample[ToInt(ls_response.digits)]
    /\ (Selected /\ ls_response.match
          /\ ToInt(ls_response.digits) \notin 1..Len(ls_sample)) =>
          ls_path = "fallback"

C8_Witness ==
    /\ ls_path = "parsed"
    /\ ls_response.digits = <<0, 1>>
    /\ Len(ls_sample) = 2
    /\ ls_sample[1] # ls_sample[2]
    /\ ls_result = ls_sample[1]

\* C9: a call with a non-empty list returns a link of the candidates, never
\* None; when the response gives no number in range the link is any of the
\* candidates, and it is appended to the chosen-link history.
C9_AlwaysOneSelection ==
    (ls_path # "none" /\ ls_links # <<>>) =>
        /\ Selected
        /\ ls_result # NoUrl
        /\ ls_result \in Range(ls_sample)
        /\ Range(ls_sample) \subseteq Range(ls_links)
        /\ ls_path = "fallback" =>
              /\ ~(ls_response.match /\ ToInt(ls_response.digits) \in 1..Len(ls_sample))
              /\ chosen_links # <<>>
              /\ Last(chosen_links) = ls_result

C9_Witness ==
    /\ ls_path = "fallback"
    /\ ls_response.match
    /\ ToInt(ls_response.digits) > Len(ls_sample)
    /\ Len(ls_sample) = 2
    /\ ls_result = ls_sample[2]
    /\ Last(chosen_links) = ls_result
    /\ Len(chosen_links) = 2

\* C10: a ConversationMemory of capacity N never holds more than N items,
\* whatever is added and cleared.
C10_MemoryWithinCapacity == Len(mem) <= mem_max

C10_Witness ==
    /\ mem_max = 2
    /\ Len(mem) = mem_max
    /\ Len(mem_added) > mem_max
    /\ mem_ops > Len(mem_added)

\* C11: once more items were added than the capacity N (since construction
\* or the last clear), get_context returns the N items added last, oldest
\* first, one "- item" line each (the no-context text when N is 0), and an
\* add to a full buffer drops the oldest item and nothing else.
C11_ContextIsTheLastItems ==
    /\ [](((mem_context # NoContext) /\ Len(mem_added) > mem_max) =>
             IF mem_max = 0
             THEN mem_context = <<"No previous context.">>
             ELSE /\ Len(mem_context) = 3 * mem_max - 1
                  /\ \A k \in 1..mem_max :
                        /\ mem_context[3 * k - 2] = "- "
                        /\ mem_context[3 * k - 1] =
                              mem_added[Len(mem_added) - mem_max + k]
                  /\ \A k \in 1..(mem_max - 1) : mem_context[3 * k] = "\n")
    /\ [][(Len(mem_added') = Len(mem_added) + 1 /\ Len(mem) = mem_max /\ mem_max > 0)
             => mem' = Append(Tail(mem), Last(mem_added'))]_vars

C11_Witness ==
    /\ mem_max = 2
    /\ Len(mem_added) = 4
    /\ mem_added[3] # mem_added[4]
    /\ mem_added[1] # mem_added[3]
    /\ mem_context = <<"- ", mem_added[3], "\n", "- ", mem_added[4]>>

(***************************************************************************)
(* Properties of the model client and of the structured parser             *)
(***************************************************************************)
GenReturned == gen_pc = "gen_returned"
FailedRequests == Len(SelectSeq(gen_outcomes, LAMBDA o : o # "ok"))

\* C12: generate(prompt, max_retries = R, retry_delay = D) sends at most R+1
\* requests; the wait after the k-th failed request, k <= R, is D*2^(k-1);
\* it returns the text of the first successful response, and the text
\* "Error: ..." of the last failure once R+1 requests have failed.
C12_RetriesWithBackoff ==
    /\ Len(gen_outcomes) <= max_retries + 1
    /\ Len(gen_waits) <= max_retries
    /\ \A n \in 1..Len(gen_waits) :
          /\ gen_waits[n] = retry_delay * 2 ^ (n - 1)
          /\ gen_outcomes[n] # "ok"
    /\ gen_pc = "gen_loop" =>
          (Len(gen_waits) = Len(gen_outcomes) /\ FailedRequests = Len(gen_outcomes))
    /\ GenReturned =>
          IF Last(gen_outcomes) = "ok"
          THEN /\ FailedRequests = Len(gen_outcomes) - 1
               /\ Len(gen_waits) = FailedRequests
               /\ gen_result \in Texts
          ELSE /\ FailedRequests = max_retries + 1
               /\ Len(gen_waits) = max_retries
               /\ gen_result = <<Mark("Error: "), Mark(Last(gen_outcomes))>>

C12_Witness ==
    /\ gen_pc = "gen_returned"
    /\ max_retries = 2
    /\ retry_delay = 2
    /\ gen_outcomes = <<"500", "timeout", "500">>
    /\ gen_waits = <<2, 4>>
    /\ gen_result = <<Mark("Error: "), Mark("500")>>

StructReturned == gen_pc = "st_returned"
\* the JSON the parser finds in the text generate returned
FoundJson == Loads(ExtractJson(gen_result).text)

\* C13: generate_structured raises for no response text: a text whose JSON
\* fails the schema gives the parsed value as it is, and a text no JSON is
\* parsed from (the error text of generate too) gives a mapping with
\* is_product false and an error message.
C13_StructuredNeverRaises ==
    StructReturned =>
        /\ st_raised = "no"
        /\ (FoundJson.raised = "no" /\ ~Valid(output_schema, FoundJson.value)) =>
              st_result = FoundJson.value
        /\ FoundJson.raised # "no" =>
              /\ st_result.t = "object"
              /\ {"is_product", "error"} \subseteq DOMAIN st_result.m
              /\ st_result.m["is_product"] = "False"

\* the document a text holds between the fences of a code block
InFence(text) ==
    IF Len(text) >= 4 /\ text[1] = FenceJson /\ text[2] = WS /\ text[Len(text)] = Fence
    THEN SubSeq(text, 3, Len(text) - 2)
    ELSE IF Len(text) >= 3 /\ text[1] = Words /\ text[2] = Fence /\ text[Len(text)] = Fence
    THEN SubSeq(text, 3, Len(text) - 1)
    ELSE <<>>
HoldsFencedObject == InFence(gen_result) \in Documents

\* C14 as stated: a valid JSON object in a fenced code block is returned
\* unchanged, the same keys with the same values.
C14_FencedObjectUnchanged ==
    (StructReturned /\ HoldsFencedObject) => st_result = Loads(InFence(gen_result)).value

\* C14 as amended: a valid JSON object in a fenced code block is returned
\* unchanged when it fails the schema; when it passes, the mapping returned
\* has exactly the fields of the schema: the values given (converted to the
\* type of the field), None for the fields left out, no key outside the schema.
C14_FencedObjectIsValidated ==
    (StructReturned /\ HoldsFencedObject) =>
        LET given == Loads(InFence(gen_result)).value
        IN  /\ st_raised = "no"
            /\ given.t = "object"
            /\ st_result.t = "object"
            /\ IF Valid(output_schema, given)
               THEN /\ DOMAIN st_result.m = Range(Fields(output_schema))
                    /\ \A key \in DOMAIN st_result.m :
                          st_result.m[key] =
                             IF key \in DOMAIN given.m THEN Coerce(key, given.m[key])
                             ELSE None
               ELSE st_result = given

C14_Witness ==
    /\ StructReturned
    /\ output_schema = "PageAnalysisResult"
    /\ gen_result = <<FenceJson, WS, LB, Member("page_type", "PRODUCT"),
                      Member("confidence", "'90'"), Member("reason", "r"),
                      Member(ExtraKey, "n"), RB, WS, Fence>>
    /\ DOMAIN st_result.m = {"page_type", "confidence", "reason", "recommended_links"}
    /\ st_result.m["recommended_links"] = None
    /\ st_result.m["confidence"] = "90"

AnalyzeReturned == gen_pc = "an_returned" /\ an_raised = "no"
\* the object the model answered with, if it answered with one
AnsweredObject == IF FoundJson.raised = "no" THEN FoundJson.value ELSE NoValue

\* C15: the result of _ai_analyze_page in structured mode has the key
\* recommended_links only when page_type is CATEGORY, and a CATEGORY result
\* always holds a list there: the empty list when the model gave none.
C15_RecommendedLinksOnlyForCategory ==
    AnalyzeReturned =>
        IF an_result.m["page_type"] = "CATEGORY"
        THEN /\ "recommended_links" \in DOMAIN an_result.m
             /\ an_result.m["recommended_links"] # None
             /\ "recommended_links" \notin DOMAIN AnsweredObject.m =>
                   an_result.m["recommended_links"] = "[]"
        ELSE "recommended_links" \notin DOMAIN an_result.m

(***************************************************************************)
(* Properties of the product extraction                                    *)
(***************************************************************************)
ExtractReturned == gen_pc = "ex_returned"
\* the fields of a record that describe a product
ProductOnlyFields == {"product_name", "price"}

\* C16: a record with is_product false that extract returns, on the
\* structured path or on the fallback path, has an error explanation and no
\* field that describes a product.
C16_NotProductHasErrorOnly ==
    (ExtractReturned /\ Get(ex_result.m, "is_product", None) = "False") =>
        /\ Get(ex_result.m, "error", None) # None
        /\ \A key \in ProductOnlyFields : Get(ex_result.m, key, None) = None

\* C17: a record with is_product true that extract returns has source_url
\* and source_domain set: where the model left them out they are the URL and
\* the domain of the page.
C17_SourceIsSet ==
    (ExtractReturned /\ Get(ex_result.m, "is_product", None) = "True") =>
        /\ Get(ex_result.m, "source_url", None) # None
        /\ Get(ex_result.m, "source_domain", None) # None
        /\ (ex_path = "structured" /\ "source_url" \notin DOMAIN AnsweredObject.m) =>
              Get(ex_result.m, "source_url", None) = PageUrl
        /\ (ex_path = "structured" /\ "source_domain" \notin DOMAIN AnsweredObject.m) =>
              Get(ex_result.m, "source_domain", None) = PageDomain

(***************************************************************************)
(* Properties of the end of a run and of the storage                       *)
(***************************************************************************)
RunDone == pc \in {"done", "raised"}

\* C18: however the collection loop is left (by its test, by an interrupt,
\* by an exception), the cleanup is run: the loop is left for the cleanup
\* only, the cleanup comes to its end, and then the browser is closed and,
\* if products were collected, save was called with all of them, so that the
\* file holds them all unless the write met an error.
C18_CleanupAlwaysRuns ==
    /\ [][exit_cause' # exit_cause => pc' = "cleanup"]_vars
    /\ (exit_cause # "none") ~> RunDone
    /\ [](RunDone =>
            /\ ~browser_open
            /\ exit_cause \in {"complete", "attempt_limit", "interrupt", "exception"}
            /\ products # <<>> =>
                  /\ store_pc = "saved"
                  /\ sv_records = products
                  /\ ~sv_error => Load(file).value = products)
C18_Witness ==
    /\ RunDone
    /\ exit_cause = "exception"
    /\ Len(products) = 1
    /\ ~sv_error
    /\ Load(file).value = products
    /\ tmp_file.exists

\* C19: while a run has no product no file is written and save is not
\* called; and save with an empty collection returns False and leaves the
\* file at the output path and the fallback location as they are.
C19_NoProductsNoFile ==
    /\ [][products' = <<>> =>
             UNCHANGED <<file, tmp_file, store_pc, sv_records, sv_returned>>]_vars
    /\ [](\A mode \in DiskModes :
             /\ ~Save(<<>>, file, tmp_file, mode).returned
             /\ Save(<<>>, file, tmp_file, mode).file = file
             /\ Save(<<>>, file, tmp_file, mode).tmp = tmp_file)
C19_Witness ==
    /\ RunDone
    /\ products = <<>>
    /\ file = OldFile
    /\ ~tmp_file.exists
    /\ disk = "ok"
    /\ sv_returned = "none"

LoadedAfterSave == store_pc = "loaded" /\ sv_returned # "none" /\ ~sv_error

\* C20 as stated: load after a save that met no write error returns the
\* collection saved, whatever the collection.
C20_RoundTrip == LoadedAfterSave => ld_result = sv_records

\* C20: load after a save of a collection that is not empty, and that met no
\* write error, returns the collection saved; the save of an empty collection
\* writes nothing, so load returns what the file held before.
C20_RoundTripOfProducts ==
    /\ (LoadedAfterSave /\ sv_records # <<>>) =>
          /\ sv_returned = "True"
          /\ ld_result = sv_records
    /\ (LoadedAfterSave /\ sv_records = <<>>) =>
          /\ sv_returned = "False"
          /\ ld_result = Load(file).value
C20_Witness ==
    /\ LoadedAfterSave
    /\ Len(sv_records) = 2
    /\ sv_records[1] # sv_records[2]
    /\ ld_result = sv_records

\* C21: load never raises: it returns the records of a file that is there
\* and whole, and the empty collection when the file is absent or not a
\* whole document; save never raises: after a write error it has tried the
\* fallback location and it returns False.
C21_StorageNeverRaises ==
    /\ store_raised = "no"
    /\ store_pc = "loaded" =>
          ld_result = IF file.exists /\ file.complete THEN JsonLoad(file.json) ELSE <<>>
    /\ (store_pc = "saved" /\ sv_error) =>
          /\ sv_returned = "False"
          /\ tmp_file \in {Written(sv_records), CutFile}
C21_Witness ==
    /\ store_pc = "loaded"
    /\ sv_error
    /\ file = CutFile
    /\ ld_result = <<>>

----------------------------------------------------------------------------
(* DirectoryMonsterClient                                                  *)

\* the listings a sequence holds for a site slug, in its order
ForSlug(listings, site_slug) == SelectSeq(listings, LAMBDA d : d.siteSlug = site_slug)

\* the listings the local file holds, none when it holds no list
Stored == IF api_file.kind = "list" THEN LoadListings(api_file.json) ELSE <<>>

\* a step that is list_listings for the slug of the create_listing before it
ListsTheCreated ==
    /\ api_op.name = "create_listing"
    /\ api_op'.name = "list_listings"
    /\ api_op'.slug = api_op.slug

ListsAfterCreate(create, list) ==
    /\ api_op.name = create
    /\ api_op'.name = list
    /\ api_op'.slug = api_op.slug

\* C24 as stated: in mock mode no operation makes a network call, and the
\* entity a create operation made is returned by the matching list
\* operation after it.
C24_SixOperationsOnFile ==
    /\ [](mock_mode => api_net = "no")
    /\ [][(\/ ListsAfterCreate("create_site", "list_sites")
           \/ ListsAfterCreate("create_category", "list_categories")
           \/ ListsAfterCreate("create_listing", "list_listings"))
          => \E k \in DOMAIN api_list' : api_list'[k] = api_entity]_vars

\* C24: in mock mode no operation makes a network call; only create_listing
\* changes the local file and only list_listings reads it: a listing whose
\* write met no error is returned by list_listings after it; create_site
\* and create_category return an entity with a local identifier and store
\* nothing; list_sites and list_categories return the empty list.
C24_ListingsOnFile ==
    /\ [](mock_mode => api_net = "no")
    /\ [](api_op.name \in {"list_sites", "list_categories"} => api_list = <<>>)
    /\ [](api_op.name = "create_site" => api_entity.id = LocalId("site", api_clock, "None"))
    /\ [](api_op.name = "create_category" =>
             api_entity.id = LocalId("category", api_clock, "None"))
    /\ [][api_file' # api_file => api_op'.name = "create_listing"]_vars
    /\ [][(ListsAfterCreate("create_listing", "list_listings") /\ api_wrote = "no")
          => \E k \in DOMAIN api_list' : api_list'[k] = api_entity]_vars
C24_Witness ==
    /\ mock_mode
    /\ api_op.name = "list_categories"
    /\ api_list = <<>>
    /\ api_clock = 1
    /\ Len(api_made) = 2
    /\ Len(Stored) = 3

\* the listings of the file the client started with, and the ones created
StartedWith == IF api_start.kind = "list" THEN LoadListings(api_start.json) ELSE <<>>

\* s is what t begins with
IsPrefix(s, t) == Len(s) <= Len(t) /\ SubSeq(t, 1, Len(s)) = s

----------------------------------------------------------------------------
(* extract_and_format                                                      *)

\* the credentials the steps of the run want
RequiredKeys == {"OPENAI_API_KEY"} \cup Wanted(px_llm_type)

\* C25: a run that lacks a credential its steps want performs no network
\* activity: no browser extraction, no request to a model, no submission.
C25_NoNetworkWithoutCredential ==
    ~(RequiredKeys \subseteq px_env) => px_net = {}

\* a run that lacks OPENAI_API_KEY ends in a ValueError before any network
\* activity; a run that lacks only ANTHROPIC_API_KEY has run the browser
\* extraction when format_with_anthropic raises
AbortsAtTheStepThatWants ==
    /\ "OPENAI_API_KEY" \notin px_env => px_net = {}
    /\ ~(RequiredKeys \subseteq px_env) => px_net \subseteq {"browser"}
    /\ (~(RequiredKeys \subseteq px_env) /\ px_pc = "logged") => px_raised # "no"
    /\ px_pc \notin {"returned"} \/ RequiredKeys \subseteq px_env
BrowserRanBeforeAbort ==
    /\ px_pc = "logged"
    /\ px_raised = "ValueError"
    /\ px_net = {"browser"}

----------------------------------------------------------------------------
(* The navigation stack                                                    *)

\* C26: a recommendation that is followed is not on the navigation stack,
\* and the navigation stack of a call holds no URL twice.
C26_NeverFollowsVisited ==
    /\ [][follows' = follows + 1 => nav_target' \notin Range(navigation_stack)]_vars
    /\ [](\A a, b \in DOMAIN navigation_stack :
             a # b => navigation_stack[a] # navigation_stack[b])

----------------------------------------------------------------------------
(* The history of the LinkSelector                                         *)

\* C27: after any sequence of select_link calls, whatever the model
\* answers, chosen_links holds at most 20 links.
C27_HistoryWithinLimit == Len(chosen_links) <= history_limit

\* what the code keeps: the history is within the limit after a call that
\* took the parsed path
HistoryWithinLimitWhenParsed == ls_path = "parsed" => Len(chosen_links) <= history_limit

----------------------------------------------------------------------------
(* The end of the collection loop and of the run                           *)

\* C28: the collection loop ends whatever the searches and extractions
\* answer; it makes at most 2 * count search attempts and collects at most
\* count products, and is_product is true in every record collected and in
\* every record saved.
C28_LoopEndsWithProducts ==
    /\ <>(exit_cause # "none")
    /\ [](search_attempts <= 2 * count)
    /\ [](Len(products) <= count)
    /\ [](\A k \in DOMAIN products : products[k].is_product = "True")
    /\ [](\A k \in DOMAIN sv_records : sv_records[k].is_product = "True")

\* what the loop does keep: it ends within its attempts, and is_product is
\* true in the condition of the loop (not False, None or empty) in every
\* record collected
LoopEndsWithTruthyRecords ==
    /\ <>(exit_cause # "none")
    /\ [](search_attempts <= 2 * count)
    /\ [](Len(products) <= count)
    /\ [](i = Len(products))
    /\ [](search_attempts >= Len(products) + failed_extractions)
    /\ [](\A k \in DOMAIN products : Truthy(products[k].is_product))

\* C29: the cleanup raises nothing, however the loop was left, also when
\* no extraction was attempted: the run comes to the end of main.
C29_CleanupNeverRaises ==
    /\ [](pc # "raised")
    /\ (pc = "cleanup") ~> (pc = "done")

\* what the cleanup does keep: it raises only after the browser is closed
\* and only in a run without any extraction
CleanupRaisesOnlyWithoutExtraction ==
    pc = "raised" =>
        /\ ~browser_open
        /\ products = <<>>
        /\ failed_extractions = 0

====
